---- MODULE Spec2Model ----
(***************************************************************************)
(* A model of actions/convert/convert.py: convert_rules, is_safe_path and  *)
(* is_path, together with the parts of pathlib, os, glob, fnmatch and      *)
(* shutil they rely on.                                                    *)
(*                                                                         *)
(* A Python str is a sequence of one-character strings, so that parsing,   *)
(* joining, globbing and matching are computed and not assumed.  A         *)
(* pathlib.Path is its tuple of parts (Path.parts), each part a str; the   *)
(* root "/" or "//" marks an absolute path.  The file system is a function *)
(* from the absolute, normalised paths that exist to directory or file     *)
(* nodes; it has no symbolic links, so Path.resolve() is lexical           *)
(* normalisation against the working directory.  A file holds bytes, a     *)
(* sequence of numbers below 256: what is written to it is a str encoded.  *)
(***************************************************************************)
EXTENDS Integers, Sequences, FiniteSets, TLC

----------------------------------------------------------------------------
(* str helpers *)

Range(s) == {s[k] : k \in DOMAIN s}

\* s.rfind(c), 1-based; 0 when c does not occur
RFind(s, c) ==
  LET hits == {k \in DOMAIN s : s[k] = c}
  IN IF hits = {} THEN 0 ELSE CHOOSE k \in hits : \A j \in hits : j <= k

StartsWith(s, c) == s # <<>> /\ s[1] = c
EndsWith(s, c) == s # <<>> /\ s[Len(s)] = c

\* s.split(c): the pieces between occurrences of c (always at least one piece)
RECURSIVE SplitAcc(_, _, _)
SplitAcc(s, c, cur) ==
  IF s = <<>> THEN <<cur>>
  ELSE IF Head(s) = c THEN <<cur>> \o SplitAcc(Tail(s), c, <<>>)
  ELSE SplitAcc(Tail(s), c, Append(cur, Head(s)))

Split(s, c) == SplitAcc(s, c, <<>>)

\* c.join(pieces)
RECURSIVE JoinWith(_, _)
JoinWith(pieces, c) ==
  IF pieces = <<>> THEN <<>>
  ELSE IF Len(pieces) = 1 THEN pieces[1]
  ELSE pieces[1] \o c \o JoinWith(Tail(pieces), c)

\* concatenation of a sequence of sequences
RECURSIVE Flatten(_)
Flatten(ss) == IF ss = <<>> THEN <<>> ELSE Head(ss) \o Flatten(Tail(ss))

\* A character that a TLA+ string cannot hold is written as its Python escape.
VT == "\\x0b"
FS == "\\x1c"
GS == "\\x1d"
RS == "\\x1e"
US == "\\x1f"
NEL == "\\x85"
NBSP == "\\xa0"
EACUTE == "\\xe9"
LSEP == "\\u2028"
PSEP == "\\u2029"

\* code-point order of the characters the model uses
Chars == <<"\t", "\n", VT, "\f", "\r", FS, GS, RS, US, " ", "!", "*", "-", ".", "/",
           "?", "P", "S", "[", "]", "a", "b", "c", "d", "e", "f", "g", "h", "i", "j",
           "k", "l", "m", "n", "o", "p", "q", "r", "s", "t", "u", "v", "w", "x",
           "y", "z", NEL, NBSP, EACUTE, LSEP, PSEP>>

Rank(c) == CHOOSE k \in DOMAIN Chars : Chars[k] = c

\* ord(c) of these characters, in the same order
CodePoints == <<9, 10, 11, 12, 13, 28, 29, 30, 31, 32, 33, 42, 45, 46, 47,
                63, 80, 83, 91, 93, 97, 98, 99, 100, 101, 102, 103, 104, 105, 106,
                107, 108, 109, 110, 111, 112, 113, 114, 115, 116, 117, 118, 119, 120,
                121, 122, 133, 160, 233, 8232, 8233>>

ord(c) == CodePoints[Rank(c)]

RECURSIVE StrLess(_, _)
StrLess(a, b) ==
  IF b = <<>> THEN FALSE
  ELSE IF a = <<>> THEN TRUE
  ELSE IF Head(a) = Head(b) THEN StrLess(Tail(a), Tail(b))
  ELSE Rank(Head(a)) < Rank(Head(b))

\* a finite set of strs as a sequence in ascending order
RECURSIVE Sorted(_)
Sorted(S) ==
  IF S = {} THEN <<>>
  ELSE LET m == CHOOSE x \in S : \A y \in S \ {x} : StrLess(x, y)
       IN <<m>> \o Sorted(S \ {m})

----------------------------------------------------------------------------
(* pathlib.PurePosixPath *)

SLASH == <<"/">>
DSLASH == <<"/", "/">>
DOT == <<".">>
DOTDOT == <<".", ".">>

\* the part no name has: it marks a directory that has been deleted
Gone == <<>>
IsGone(d) == d # <<>> /\ d[1] = Gone

\* the root of s: exactly two leading separators are kept as the root "//",
\* any other number of them is the root "/"
RootOf(s) ==
  IF ~StartsWith(s, "/") THEN <<>>
  ELSE IF Len(s) >= 2 /\ s[2] = "/" /\ ~(Len(s) >= 3 /\ s[3] = "/") THEN <<DSLASH>>
  ELSE <<SLASH>>

\* Path(s): the parts of s; empty and "." segments are dropped, ".." is kept
PathOf(s) ==
  RootOf(s) \o SelectSeq(Split(s, "/"), LAMBDA x : x # <<>> /\ x # DOT)

IsAbsolute(p) == p # <<>> /\ p[1] \in {SLASH, DSLASH}

\* p / q
PathJoin(p, q) == IF IsAbsolute(q) THEN q ELSE p \o q

\* str(p)
StrOfPath(p) ==
  IF p = <<>> THEN DOT
  ELSE IF IsAbsolute(p) THEN p[1] \o JoinWith(Tail(p), <<"/">>)
  ELSE JoinWith(p, <<"/">>)

\* p.parent
Parent(p) ==
  IF p = <<>> \/ (Len(p) = 1 /\ IsAbsolute(p)) THEN p ELSE SubSeq(p, 1, Len(p) - 1)

\* p.parents, as a set
Parents(p) ==
  {SubSeq(p, 1, k) : k \in (IF IsAbsolute(p) THEN 1 ELSE 0) .. (Len(p) - 1)}

\* removes ".." lexically from an absolute path (".." of the root is the root)
RECURSIVE Collapse(_, _)
Collapse(done, rest) ==
  IF rest = <<>> THEN done
  ELSE IF Head(rest) = DOTDOT THEN Collapse(Parent(done), Tail(rest))
  ELSE Collapse(Append(done, Head(rest)), Tail(rest))

\* p.resolve() raises FileNotFoundError when p is relative and the working
\* directory wd has been deleted (os.getcwd() fails)
resolve_error(wd, p) == ~IsAbsolute(p) /\ ~IsAbsolute(wd)

\* what Resolve gives where p.resolve() raises
NoCwd == <<Gone>>

\* p.resolve() in working directory wd (no symbolic links): os.path.realpath
\* starts an absolute path from "/", whatever its root
Resolve(wd, p) ==
  IF resolve_error(wd, p) THEN NoCwd
  ELSE Collapse(<<SLASH>>, IF IsAbsolute(p) THEN Tail(p) ELSE Tail(wd) \o p)

----------------------------------------------------------------------------
(* fnmatch and os.path *)

\* fnmatch.translate: where the character class that opens at pat[1] = "["
\* closes (a "!" and then a "]" right after the "[" do not close it); 0 when
\* it never closes
class_end(pat) ==
  LET n == Len(pat)
      j1 == IF n >= 2 /\ pat[2] = "!" THEN 3 ELSE 2
      j2 == IF j1 <= n /\ pat[j1] = "]" THEN j1 + 1 ELSE j1
      closes == {j \in j2..n : pat[j] = "]"}
  IN IF closes = {} THEN 0 ELSE CHOOSE j \in closes : \A k \in closes : j <= k

\* fnmatch.translate: the class text cut at the hyphens that can make a range;
\* after a cut the next hyphen is looked for three characters on
RECURSIVE class_cut(_, _, _)
class_cut(stuff, start, from) ==
  LET hits == {k \in from..Len(stuff) : stuff[k] = "-"}
  IN IF hits = {} THEN <<SubSeq(stuff, start, Len(stuff))>>
     ELSE LET k == CHOOSE h \in hits : \A g \in hits : h <= g
          IN <<SubSeq(stuff, start, k - 1)>> \o class_cut(stuff, k + 1, k + 3)

\* fnmatch.translate: a range whose start is above its end is taken out with
\* both its ends, from the last range to the first
RECURSIVE class_drop_empty(_, _)
class_drop_empty(chunks, k) ==
  IF k < 2 THEN chunks
  ELSE IF Rank(chunks[k - 1][Len(chunks[k - 1])]) > Rank(chunks[k][1])
    THEN class_drop_empty(SubSeq(chunks, 1, k - 2)
                            \o <<SubSeq(chunks[k - 1], 1, Len(chunks[k - 1]) - 1) \o Tail(chunks[k])>>
                            \o SubSeq(chunks, k + 1, Len(chunks)), k - 1)
  ELSE class_drop_empty(chunks, k - 1)

\* fnmatch.translate: the chunks of a class; each chunk's last character and
\* the next chunk's first are the ends of a range
class_chunks(stuff) ==
  IF "-" \notin Range(stuff) THEN <<stuff>>
  ELSE LET cut == class_cut(stuff, 1, IF stuff[1] = "!" THEN 3 ELSE 2)
           n == Len(cut)
           whole == IF cut[n] # <<>> THEN cut
                    ELSE SubSeq(cut, 1, n - 2) \o <<Append(cut[n - 1], "-")>>
       IN class_drop_empty(whole, Len(whole))

\* fnmatch.translate: the class as the regular expression gets it: the chunks
\* joined by hyphens; a hyphen inside a chunk is escaped, a joining one is not
RECURSIVE class_join(_)
class_join(chunks) ==
  LET lits == [k \in DOMAIN chunks[1] |-> [ch |-> chunks[1][k], hyphen |-> FALSE]]
  IN IF Len(chunks) = 1 THEN lits
     ELSE lits \o <<[ch |-> "-", hyphen |-> TRUE]>> \o class_join(Tail(chunks))

\* re: a set takes c when c is one of its characters or lies in one of its
\* ranges; an unescaped hyphen makes a range of the characters around it
\* unless it comes first or last
RECURSIVE class_holds(_, _)
class_holds(items, c) ==
  IF items = <<>> THEN FALSE
  ELSE IF Len(items) >= 3 /\ items[2].hyphen
    THEN \/ Rank(items[1].ch) <= Rank(c) /\ Rank(c) <= Rank(items[3].ch)
         \/ class_holds(SubSeq(items, 4, Len(items)), c)
  ELSE items[1].ch = c \/ class_holds(Tail(items), c)

\* fnmatch.translate: whether the class with text stuff takes the character c.
\* No text takes nothing, "!" alone takes everything, a leading "!" negates.
class_matches(stuff, c) ==
  LET items == class_join(class_chunks(stuff))
  IN IF items = <<>> THEN FALSE
     ELSE IF Len(items) = 1 /\ items[1].ch = "!" THEN TRUE
     ELSE IF items[1].ch = "!" /\ ~items[1].hyphen THEN ~class_holds(Tail(items), c)
     ELSE class_holds(items, c)

\* fnmatch.fnmatch(name, pat) on POSIX: "*" matches any run of characters
\* (separators included), "?" one character, "[seq]" one character of seq,
\* "[!seq]" one character not in seq, a "[" that never closes and anything
\* else itself.
RECURSIVE fnmatch(_, _)
fnmatch(name, pat) ==
  IF pat = <<>> THEN name = <<>>
  ELSE IF Head(pat) = "*"
    THEN fnmatch(name, Tail(pat)) \/ (name # <<>> /\ fnmatch(Tail(name), pat))
  ELSE IF Head(pat) = "?" THEN name # <<>> /\ fnmatch(Tail(name), Tail(pat))
  ELSE IF Head(pat) = "[" /\ class_end(pat) # 0
    THEN /\ name # <<>>
         /\ class_matches(SubSeq(pat, 2, class_end(pat) - 1), Head(name))
         /\ fnmatch(Tail(name), SubSeq(pat, class_end(pat) + 1, Len(pat)))
  ELSE name # <<>> /\ Head(name) = Head(pat) /\ fnmatch(Tail(name), Tail(pat))

\* os.path.splitext(p)[1]: from the last dot of the last component, unless
\* only dots precede it there
splitext1(p) ==
  LET sepIndex == RFind(p, "/")
      dotIndex == RFind(p, ".")
  IN IF dotIndex > sepIndex /\ \E k \in (sepIndex + 1) .. (dotIndex - 1) : p[k] # "."
       THEN SubSeq(p, dotIndex, Len(p))
       ELSE <<>>

\* os.path.split(p)
OsSplit(p) ==
  LET i == RFind(p, "/")
      head == SubSeq(p, 1, i)
      tail == SubSeq(p, i + 1, Len(p))
      RECURSIVE RStrip(_)
      RStrip(h) == IF EndsWith(h, "/") THEN RStrip(SubSeq(h, 1, Len(h) - 1)) ELSE h
  IN [head |-> IF Range(head) \subseteq {"/"} THEN head ELSE RStrip(head),
      tail |-> tail]

\* os.path.join(a, b)
OsJoin(a, b) ==
  IF StartsWith(b, "/") THEN b
  ELSE IF a = <<>> \/ EndsWith(a, "/") THEN a \o b
  ELSE a \o <<"/">> \o b

----------------------------------------------------------------------------
(* The file system.  A directory is named by its absolute, normalised      *)
(* parts with root "/".  A directory that was deleted while it was in use  *)
(* is <<Gone>> followed by the directory that was its parent: it still     *)
(* answers "." and "..", and holds nothing.  wd is the working directory.  *)

DirNode == [kind |-> "dir", data |-> <<>>]
FileNode(d) == [kind |-> "file", data |-> d]

IsPrefix(a, b) == Len(a) <= Len(b) /\ SubSeq(b, 1, Len(a)) = a

\* the kernel's walk along the components of a path: every directory passed
\* through must exist, "." stays in the directory reached and ".." steps to
\* its parent
RECURSIVE WalkFrom(_, _, _)
WalkFrom(fs, cur, rest) ==
  IF rest = <<>> THEN [err |-> "ok", path |-> cur]
  ELSE IF IsGone(cur)
    THEN IF Head(rest) = DOT THEN WalkFrom(fs, cur, Tail(rest))
         ELSE IF Head(rest) = DOTDOT THEN WalkFrom(fs, Tail(cur), Tail(rest))
         ELSE [err |-> "ENOENT", path |-> cur]
  ELSE IF cur \notin DOMAIN fs THEN [err |-> "ENOENT", path |-> cur]
  ELSE IF fs[cur].kind # "dir" THEN [err |-> "ENOTDIR", path |-> cur]
  ELSE WalkFrom(fs,
                IF Head(rest) = DOT THEN cur
                ELSE IF Head(rest) = DOTDOT THEN Parent(cur)
                ELSE Append(cur, Head(rest)),
                Tail(rest))

\* the walk for a Path p (the call is made with str(p))
Lookup(fs, wd, p) ==
  IF IsAbsolute(p) THEN WalkFrom(fs, <<SLASH>>, Tail(p)) ELSE WalkFrom(fs, wd, p)

\* the components of a str as the kernel takes them: empty ones vanish, "."
\* is kept, and a trailing separator asks for a directory as a last "." does
StrParts(s) ==
  SelectSeq(Split(s, "/"), LAMBDA x : x # <<>>)
    \o (IF EndsWith(s, "/") THEN <<DOT>> ELSE <<>>)

\* the walk for a str s; the empty str names nothing
LookupStr(fs, wd, s) ==
  IF s = <<>> THEN [err |-> "ENOENT", path |-> <<>>]
  ELSE WalkFrom(fs, IF StartsWith(s, "/") THEN <<SLASH>> ELSE wd, StrParts(s))

\* what a finished walk has reached
Reached(fs, r) == r.err = "ok" /\ (r.path \in DOMAIN fs \/ IsGone(r.path))
ReachedDir(fs, r) ==
  r.err = "ok" /\ (IsGone(r.path) \/ (r.path \in DOMAIN fs /\ fs[r.path].kind = "dir"))

\* Path.exists, Path.is_dir
PathExists(fs, wd, p) == Reached(fs, Lookup(fs, wd, p))
PathIsDir(fs, wd, p) == ReachedDir(fs, Lookup(fs, wd, p))

\* os.path.exists / os.path.lexists (no links), os.path.isdir
os_path_exists(fs, wd, s) == Reached(fs, LookupStr(fs, wd, s))
os_path_isdir(fs, wd, s) == ReachedDir(fs, LookupStr(fs, wd, s))

\* the directory that is to hold the last component of p, or the error
HolderOf(fs, wd, p) ==
  LET r == Lookup(fs, wd, SubSeq(p, 1, Len(p) - 1))
  IN IF r.err # "ok" THEN r
     ELSE IF r.path \notin DOMAIN fs THEN [err |-> "ENOENT", path |-> r.path]
     ELSE IF fs[r.path].kind # "dir" THEN [err |-> "ENOTDIR", path |-> r.path]
     ELSE r

\* os.mkdir(p); a last component ".." names a directory that is there, be it
\* the parent of a deleted working directory
OsMkdir(fs, wd, p) ==
  IF p = <<>> \/ p = Parent(p) THEN [err |-> "EEXIST", fs |-> fs]
  ELSE IF p[Len(p)] = DOTDOT /\ ReachedDir(fs, Lookup(fs, wd, p))
    THEN [err |-> "EEXIST", fs |-> fs]
  ELSE LET h == HolderOf(fs, wd, p)
           last == p[Len(p)]
           target == IF last = DOTDOT THEN Parent(h.path) ELSE Append(h.path, last)
       IN IF h.err # "ok" THEN [err |-> h.err, fs |-> fs]
          ELSE IF target \in DOMAIN fs THEN [err |-> "EEXIST", fs |-> fs]
          ELSE [err |-> "ok",
                fs |-> [q \in DOMAIN fs \cup {target} |->
                          IF q = target THEN DirNode ELSE fs[q]]]

\* Path.mkdir(parents=True, exist_ok=True)
RECURSIVE MkdirParents(_, _, _)
MkdirParents(fs, wd, p) ==
  LET r == OsMkdir(fs, wd, p)
  IN IF r.err = "ok" THEN [ok |-> TRUE, fs |-> r.fs]
     ELSE IF r.err = "ENOENT"
       THEN IF Parent(p) = p THEN [ok |-> FALSE, fs |-> fs]
            ELSE LET up == MkdirParents(fs, wd, Parent(p))
                     again == OsMkdir(up.fs, wd, p)
                 IN IF ~up.ok THEN up
                    ELSE IF again.err = "ok" THEN [ok |-> TRUE, fs |-> again.fs]
                    ELSE IF again.err = "ENOENT" THEN [ok |-> FALSE, fs |-> up.fs]
                    ELSE [ok |-> PathIsDir(up.fs, wd, p), fs |-> up.fs]
     ELSE [ok |-> PathIsDir(fs, wd, p), fs |-> fs]

\* os.rmdir(p) fails after the tree below p was deleted: p is the root or
\* ".", or its last component is ".." (the directory before it is gone by then)
rmdir_refused(p) == p = <<>> \/ p = Parent(p) \/ p[Len(p)] = DOTDOT

\* shutil.rmtree(p) of an existing directory: all below it is deleted, then
\* os.rmdir(p) deletes the directory; where os.rmdir fails the directory
\* stays and the OSError is raised
Rmtree(fs, wd, p) ==
  LET t == Lookup(fs, wd, p).path
  IN [ok |-> ~rmdir_refused(p),
      fs |-> [q \in {q \in DOMAIN fs : ~IsPrefix(t, q) \/ (q = t /\ rmdir_refused(p))} |-> fs[q]]]

\* the working directory after all below the directory t was deleted, and t
\* too unless kept: a deleted working directory is gone, and so is every
\* directory between it and the nearest one that stays
RECURSIVE GoneBelow(_, _)
GoneBelow(n, parent) == IF n = 0 THEN parent ELSE <<Gone>> \o GoneBelow(n - 1, parent)

RECURSIVE cwd_after_rmtree(_, _, _)
cwd_after_rmtree(wd, t, kept) ==
  IF IsGone(wd) THEN <<Gone>> \o cwd_after_rmtree(Tail(wd), t, kept)
  ELSE IF ~IsPrefix(t, wd) THEN wd
  ELSE IF kept THEN GoneBelow(Len(wd) - Len(t), t)
  ELSE GoneBelow(Len(wd) - Len(t) + 1, Parent(t))

\* open(p, "w"), which creates the file or empties the one that is there,
\* followed by the write of the bytes data and close
OpenWrite(fs, wd, p, data) ==
  IF p = <<>> \/ p = Parent(p) THEN [ok |-> FALSE, fs |-> fs]
  ELSE LET h == HolderOf(fs, wd, p)
           last == p[Len(p)]
           target == Append(h.path, last)
       IN IF h.err # "ok" \/ last = DOTDOT THEN [ok |-> FALSE, fs |-> fs]
          ELSE IF target \in DOMAIN fs /\ fs[target].kind = "dir"
            THEN [ok |-> FALSE, fs |-> fs]
          ELSE [ok |-> TRUE,
                fs |-> [q \in DOMAIN fs \cup {target} |->
                          IF q = target THEN FileNode(data) ELSE fs[q]]]

----------------------------------------------------------------------------
(* glob.glob(pathname, recursive=True), on strs as in glob.py.  os.scandir *)
(* lists a directory in an order the file system chooses: scan[d] is the   *)
(* order in which the directory d lists the names it holds.                *)

has_magic(s) == \E k \in DOMAIN s : s[k] \in {"*", "?", "["}
isrecursive(pattern) == pattern = <<"*", "*">>
ishidden(name) == StartsWith(name, ".")

\* the names in directory d as os.scandir yields them
names_in(scan, fs, d, dironly) ==
  SelectSeq(scan[d], LAMBDA n : /\ Append(d, n) \in DOMAIN fs
                                /\ (dironly => fs[Append(d, n)].kind = "dir"))

\* glob._listdir: the names in dirname or, when dirname is empty, in "."
\* (none if it cannot be listed)
listdir(scan, fs, wd, dirname, dironly) ==
  LET r == LookupStr(fs, wd, IF dirname = <<>> THEN DOT ELSE dirname)
  IN IF r.err = "ok" /\ r.path \in DOMAIN fs /\ fs[r.path].kind = "dir"
       THEN names_in(scan, fs, r.path, dironly)
       ELSE <<>>

glob0(fs, wd, dirname, basename, dironly) ==
  IF basename # <<>>
    THEN IF os_path_exists(fs, wd, OsJoin(dirname, basename))
           THEN <<basename>> ELSE <<>>
    ELSE IF os_path_isdir(fs, wd, dirname) THEN <<basename>> ELSE <<>>

glob1(scan, fs, wd, dirname, pattern, dironly) ==
  SelectSeq(listdir(scan, fs, wd, dirname, dironly),
            LAMBDA x : (ishidden(pattern) \/ ~ishidden(x)) /\ fnmatch(x, pattern))

\* [os.path.join(x, y) for y in below]
JoinEach(x, below) == [k \in DOMAIN below |-> OsJoin(x, below[k])]

RECURSIVE rlistdir(_, _, _, _, _)
RECURSIVE rlist_names(_, _, _, _, _, _)
rlist_names(scan, fs, wd, dirname, dironly, names) ==
  IF names = <<>> THEN <<>>
  ELSE (IF ishidden(Head(names)) THEN <<>>
        ELSE <<Head(names)>>
               \o JoinEach(Head(names),
                           rlistdir(scan, fs, wd,
                                    IF dirname = <<>> THEN Head(names)
                                    ELSE OsJoin(dirname, Head(names)),
                                    dironly)))
       \o rlist_names(scan, fs, wd, dirname, dironly, Tail(names))

rlistdir(scan, fs, wd, dirname, dironly) ==
  rlist_names(scan, fs, wd, dirname, dironly, listdir(scan, fs, wd, dirname, dironly))

glob2(scan, fs, wd, dirname, pattern, dironly) ==
  <<(<<>>)>> \o rlistdir(scan, fs, wd, dirname, dironly)

glob_in_dir(scan, fs, wd, dirname, basename, dironly) ==
  IF has_magic(basename)
    THEN IF isrecursive(basename) THEN glob2(scan, fs, wd, dirname, basename, dironly)
         ELSE glob1(scan, fs, wd, dirname, basename, dironly)
    ELSE glob0(fs, wd, dirname, basename, dironly)

\* the loop over dirs at the end of glob._iglob
RECURSIVE glob_dirs(_, _, _, _, _, _)
glob_dirs(scan, fs, wd, dirs, basename, dironly) ==
  IF dirs = <<>> THEN <<>>
  ELSE JoinEach(Head(dirs), glob_in_dir(scan, fs, wd, Head(dirs), basename, dironly))
         \o glob_dirs(scan, fs, wd, Tail(dirs), basename, dironly)

\* glob._iglob, with pathname split into dirname and basename
RECURSIVE iglob(_, _, _, _, _)
iglob_split(scan, fs, wd, pathname, dironly, dirname, basename) ==
  IF ~has_magic(pathname)
    THEN IF basename # <<>>
           THEN IF os_path_exists(fs, wd, pathname) THEN <<pathname>> ELSE <<>>
           ELSE IF os_path_isdir(fs, wd, dirname) THEN <<pathname>> ELSE <<>>
  ELSE IF dirname = <<>>
    THEN glob_in_dir(scan, fs, wd, <<>>, basename, dironly)
  ELSE glob_dirs(scan, fs, wd,
                 IF dirname # pathname /\ has_magic(dirname)
                   THEN iglob(scan, fs, wd, dirname, TRUE)
                   ELSE <<dirname>>,
                 basename, dironly)

iglob(scan, fs, wd, pathname, dironly) ==
  iglob_split(scan, fs, wd, pathname, dironly, OsSplit(pathname).head, OsSplit(pathname).tail)

\* glob.glob drops the empty first result of a pattern that starts with "**"
drop_empty_head(pathname, it) ==
  IF (pathname = <<>> \/ (Len(pathname) >= 2 /\ isrecursive(SubSeq(pathname, 1, 2))))
     /\ it # <<>> /\ Head(it) = <<>>
    THEN Tail(it) ELSE it

glob(scan, fs, wd, pathname) ==
  drop_empty_head(pathname, iglob(scan, fs, wd, pathname, FALSE))

----------------------------------------------------------------------------
(* Which listings show in the results of glob: a name that glob took from  *)
(* the listing of a directory, with the result it makes (a result, or the  *)
(* directory part of results).  The operators follow glob1, _rlistdir,     *)
(* _glob_in_dir and _iglob.                                                *)

Listed(dir, name, at) == [dir |-> dir, name |-> name, at |-> at]

listed1(scan, fs, wd, dirname, pattern, dironly) ==
  {Listed(LookupStr(fs, wd, IF dirname = <<>> THEN DOT ELSE dirname).path, n, OsJoin(dirname, n)) :
     n \in Range(glob1(scan, fs, wd, dirname, pattern, dironly))}

RECURSIVE listed_below(_, _, _, _, _)
listed_below(scan, fs, wd, dirname, dironly) ==
  LET names == {n \in Range(listdir(scan, fs, wd, dirname, dironly)) : ~ishidden(n)}
      path(n) == IF dirname = <<>> THEN n ELSE OsJoin(dirname, n)
  IN {Listed(LookupStr(fs, wd, IF dirname = <<>> THEN DOT ELSE dirname).path, n, path(n)) : n \in names}
       \cup UNION {listed_below(scan, fs, wd, path(n), dironly) : n \in names}

listed_in_dir(scan, fs, wd, dirname, basename, dironly) ==
  IF ~has_magic(basename) THEN {}
  ELSE IF isrecursive(basename) THEN listed_below(scan, fs, wd, dirname, dironly)
  ELSE listed1(scan, fs, wd, dirname, basename, dironly)

RECURSIVE listed_by(_, _, _, _, _)
listed_split(scan, fs, wd, pathname, dironly, dirname, basename) ==
  IF ~has_magic(pathname) THEN {}
  ELSE IF dirname = <<>> THEN listed_in_dir(scan, fs, wd, <<>>, basename, dironly)
  ELSE IF dirname # pathname /\ has_magic(dirname)
    THEN listed_by(scan, fs, wd, dirname, TRUE)
           \cup UNION {listed_in_dir(scan, fs, wd, d, basename, dironly) :
                         d \in Range(iglob(scan, fs, wd, dirname, TRUE))}
  ELSE listed_in_dir(scan, fs, wd, dirname, basename, dironly)

listed_by(scan, fs, wd, pathname, dironly) ==
  listed_split(scan, fs, wd, pathname, dironly, OsSplit(pathname).head, OsSplit(pathname).tail)

\* the listed names that show in files: those whose result is one of the
\* files or the directory part of one
listed_in(listed, files) ==
  {l \in listed : \E f \in Range(files) : f = l.at \/ IsPrefix(l.at \o <<"/">>, f)}

\* the directories of fs, and the names one of them holds
DirsOf(fs) == {q \in DOMAIN fs : fs[q].kind = "dir"}
HeldIn(fs, d) == {q[Len(q)] : q \in {q \in DOMAIN fs : Len(q) = Len(d) + 1 /\ IsPrefix(d, q)}}

\* a listing of every directory of fs that agrees with known, the orders that
\* listings have shown so far.  The names whose place has not shown come
\* last: the plans made of this listing show the place of none of them.
listing_of(fs, known) ==
  [d \in DirsOf(fs) |->
     LET seen == IF d \in DOMAIN known THEN known[d] ELSE <<>>
     IN seen \o Sorted(HeldIn(fs, d) \ Range(seen))]

\* every order of the names of S
OrdersOf(S) ==
  {p \in [1..Cardinality(S) -> S] : \A a, b \in 1..Cardinality(S) : a # b => p[a] # p[b]}

\* every order of seen and names together that keeps the order seen
orders_after(seen, names) ==
  {p \in OrdersOf(Range(seen) \cup names) : SelectSeq(p, LAMBDA n : n \in Range(seen)) = seen}

\* the orders shown once the names of shows are listed: in every directory
\* that shows two names or more, any order that keeps the one known
orders_shown(known, shows) ==
  LET dirs == {d \in {l.dir : l \in shows} : Cardinality({l.name : l \in {x \in shows : x.dir = d}}) >= 2}
      after(d) == orders_after(IF d \in DOMAIN known THEN known[d] ELSE <<>>,
                               {l.name : l \in {x \in shows : x.dir = d}})
  IN IF dirs = {} THEN {known}
     ELSE {[d \in DOMAIN known \cup dirs |-> IF d \in dirs THEN g[d] ELSE known[d]] :
             g \in {g \in [dirs -> UNION {after(d) : d \in dirs}] : \A d \in dirs : g[d] \in after(d)}}

\* the listed names that show in the filtered files of the input patterns
listed_input(scan, fs, wd, path_prefix, pats, filtered_files) ==
  listed_in(UNION {listed_by(scan, fs, wd, StrOfPath(PathJoin(path_prefix, PathOf(pats[k]))), FALSE) :
                     k \in DOMAIN pats},
            filtered_files)

\* the orders still known once the file system before has become after: a
\* directory that holds the names it held lists them as it did; one that was
\* deleted, or that gained or lost a name, may list its names in any order
orders_kept(known, before, after) ==
  LET same == {d \in DOMAIN known :
                 /\ d \in DirsOf(before) /\ d \in DirsOf(after)
                 /\ HeldIn(before, d) = HeldIn(after, d)}
  IN IF same = DOMAIN known THEN known
     ELSE IF same = {} THEN <<>>
     ELSE [d \in same |-> known[d]]

----------------------------------------------------------------------------
(* str methods used on the engine's output *)

\* the characters at which str.splitlines ends a line
LineEnds == {"\n", "\r", VT, "\f", FS, GS, RS, NEL, LSEP, PSEP}

\* the lines of s that follow the unfinished line cur; "\r\n" ends one line
RECURSIVE lines_after(_, _)
lines_after(s, cur) ==
  IF s = <<>> THEN (IF cur = <<>> THEN <<>> ELSE <<cur>>)
  ELSE IF Len(s) >= 2 /\ s[1] = "\r" /\ s[2] = "\n"
    THEN <<cur>> \o lines_after(SubSeq(s, 3, Len(s)), <<>>)
  ELSE IF Head(s) \in LineEnds THEN <<cur>> \o lines_after(Tail(s), <<>>)
  ELSE lines_after(Tail(s), Append(cur, Head(s)))

\* s.splitlines(): the lines of s without their line ends
splitlines(s) == lines_after(s, <<>>)

\* the characters str.strip takes off: those for which str.isspace holds
Whitespace ==
  {"\t", "\n", VT, "\f", "\r", FS, GS, RS, US, " ", NEL, NBSP, LSEP, PSEP,
   "\\u1680", "\\u2000", "\\u2001", "\\u2002", "\\u2003", "\\u2004", "\\u2005",
   "\\u2006", "\\u2007", "\\u2008", "\\u2009", "\\u200a", "\\u202f", "\\u205f",
   "\\u3000"}

\* s.strip()
RECURSIVE strip(_)
strip(s) ==
  IF s = <<>> THEN s
  ELSE IF Head(s) \in Whitespace THEN strip(Tail(s))
  ELSE IF s[Len(s)] \in Whitespace THEN strip(SubSeq(s, 1, Len(s) - 1))
  ELSE s

\* the bytes of one character in UTF-8; a surrogate has none
utf_8_bytes(cp) ==
  IF cp < 128 THEN <<cp>>
  ELSE IF cp < 2048 THEN <<192 + (cp \div 64), 128 + (cp % 64)>>
  ELSE IF cp < 65536
    THEN <<224 + (cp \div 4096), 128 + ((cp \div 64) % 64), 128 + (cp % 64)>>
  ELSE <<240 + (cp \div 262144), 128 + ((cp \div 4096) % 64), 128 + ((cp \div 64) % 64),
         128 + (cp % 64)>>

\* the codec that open(..., encoding=encoding) looks up, for the encodings of
\* the model's configurations; "unknown" is a name no codec is registered for
\* (LookupError).  The names are written in one piece.
codec_of(encoding) ==
  CASE encoding \in {<<"utf-8">>, <<"utf8">>} -> "utf-8"
    [] encoding \in {<<"ascii">>, <<"us-ascii">>} -> "ascii"
    [] encoding \in {<<"latin-1">>, <<"latin1">>, <<"iso-8859-1">>} -> "latin-1"
    [] encoding \in {<<"nope">>, <<>>} -> "unknown"

\* whether the codec has bytes for the character
encodable(codec, c) ==
  CASE codec = "utf-8" -> ord(c) < 55296 \/ ord(c) > 57343
    [] codec = "ascii" -> ord(c) < 128
    [] codec = "latin-1" -> ord(c) < 256

\* text.encode(codec) with errors="strict": the bytes, or UnicodeEncodeError
\* when a character has none
encode(text, codec) ==
  IF \E k \in DOMAIN text : ~encodable(codec, text[k]) THEN [ok |-> FALSE, bytes |-> <<>>]
  ELSE [ok |-> TRUE,
        bytes |-> Flatten([k \in DOMAIN text |->
                             IF codec = "utf-8" THEN utf_8_bytes(ord(text[k]))
                             ELSE <<ord(text[k])>>])]

\* needle in s
Contains(s, needle) ==
  \E k \in 0 .. (Len(s) - Len(needle)) : SubSeq(s, k + 1, k + Len(needle)) = needle

\* the progress banner of the engine, "Parsing Sigma rules"
Banner == <<"P", "a", "r", "s", "i", "n", "g", " ", "S", "i", "g", "m", "a", " ",
            "r", "u", "l", "e", "s">>

\* "\n".join(line for line in stdout.splitlines() if Banner not in line)
filtered_output(stdout) ==
  JoinWith(SelectSeq(splitlines(stdout), LAMBDA line : ~Contains(line, Banner)), <<"\n">>)

----------------------------------------------------------------------------
(* is_safe_path and is_path *)

\* is_safe_path without the two resolve() calls
is_safe_path_unresolved(wd, base_dir, target_path) ==
  base_dir \in Parents(target_path) \/ base_dir = target_path

\* is_safe_path without the test base_dir == target_path
is_safe_path_parents_only(wd, base_dir, target_path) ==
  Resolve(wd, base_dir) \in Parents(Resolve(wd, target_path))

\* is_safe_path raises what resolve() raises
is_safe_path_error(wd, base_dir, target_path) ==
  resolve_error(wd, base_dir) \/ resolve_error(wd, target_path)

\* is_safe_path(base_dir, target_path) in working directory wd, where it returns
is_safe_path(wd, base_dir, target_path) ==
  LET base == Resolve(wd, base_dir)
      target == Resolve(wd, target_path)
  IN base \in Parents(target) \/ base = target

\* is_path without the test of os.path.splitext(path_string)[1]
is_path_any_match(fs, wd, path_string, file_pattern) ==
  \/ os_path_exists(fs, wd, path_string)
  \/ IsAbsolute(PathOf(path_string)) \/ "/" \in Range(path_string)
  \/ fnmatch(path_string, file_pattern)

\* is_path(path_string, file_pattern) with file system fs, working directory wd
is_path(fs, wd, path_string, file_pattern) ==
  IF os_path_exists(fs, wd, path_string) THEN TRUE
  ELSE IF IsAbsolute(PathOf(path_string)) \/ "/" \in Range(path_string) THEN TRUE
  ELSE IF splitext1(path_string) # <<>> /\ fnmatch(path_string, file_pattern) THEN TRUE
  ELSE FALSE

----------------------------------------------------------------------------
(* Values of the run.  An optional value (a key of the configuration that  *)
(* may be absent, an argument that may be None) is a sequence of length 0  *)
(* or 1.                                                                   *)

None == <<>>
Some(v) == <<v>>
Get(opt, default) == IF opt = None THEN default ELSE opt[1]

\* one entry of config["conversions"]; input.kind tells whether the "input"
\* key is absent, a str or a list, and input.pats holds its pattern(s)
Conversion(name, kind, pats, file_pattern, pipelines) ==
  [name |-> name, input |-> [kind |-> kind, pats |-> pats],
   file_pattern |-> file_pattern, pipelines |-> pipelines,
   target |-> None, format |-> None, skip_unsupported |-> None, encoding |-> None]

\* the raise statements of convert_rules, the OSError of mkdir and open, the
\* LookupError of open for an encoding without a codec and the
\* UnicodeEncodeError of write for a character the codec has no bytes for
NoError == [type |-> "none", msg |-> "", detail |-> <<>>]
ValueError(msg, detail) == [type |-> "ValueError", msg |-> msg, detail |-> detail]
OSError(msg) == [type |-> "OSError", msg |-> msg, detail |-> <<>>]
TypeError(msg) == [type |-> "TypeError", msg |-> msg, detail |-> <<>>]
LookupError(encoding) == [type |-> "LookupError", msg |-> "unknown encoding", detail |-> encoding]
UnicodeEncodeError(codec) ==
  [type |-> "UnicodeEncodeError", msg |-> "codec can't encode character", detail |-> <<codec>>]

MsgPathPrefix == "Path prefix must be set using GITHUB_WORKSPACE environment variable."
MsgOutside == "Conversion output directory is outside the project root"
MsgName == "Conversion name is required and must be a unique identifier across all conversion objects in the config"
MsgInputRelative == "Input file pattern must be relative to the project root"
MsgInputType == "Invalid input file type"
MsgNotIterable == "object is not iterable"
MsgNoFiles == "No files matched the patterns after applying file-pattern: "
MsgPipelineRelative == "Pipeline file path must be relative to the project root"

\* option values whose characters play no role are written in one piece
Loki == <<"loki">>
FormatDefault == <<"default">>
Utf8 == <<"utf-8">>
StarYml == <<"*", ".", "y", "m", "l">>
TxtSuffix == <<".", "t", "x", "t">>

----------------------------------------------------------------------------
(* convert_rules: the planning of one conversion (the loop body up to the  *)
(* engine's arguments).  The arguments the model keeps are the target, the *)
(* pipelines, the format, the file pattern, the encoding, the unsupported-  *)
(* rules flag and the files; the options passed through untouched          *)
(* (correlation method, filters, backend options, JSON indent, pipeline    *)
(* switches) are left out.                                                 *)

\* every reference handed over as it is written in the configuration
pipeline_args_unjoined(fs, wd, path_prefix, pipelines, file_pattern) == pipelines

\* the "--pipeline=" arguments
pipeline_args(fs, wd, path_prefix, pipelines, file_pattern) ==
  [k \in DOMAIN pipelines |->
     IF is_path(fs, wd, pipelines[k], file_pattern)
       THEN StrOfPath(PathJoin(path_prefix, PathOf(pipelines[k])))
       ELSE pipelines[k]]

\* input_files: glob.glob(str(path_prefix / pattern), recursive=True) of every
\* pattern, in order
expand_input(scan, fs, wd, path_prefix, pats) ==
  Flatten([k \in DOMAIN pats |->
             glob(scan, fs, wd, StrOfPath(PathJoin(path_prefix, PathOf(pats[k]))))])

\* filtered_files
filter_files(input_files, file_pattern) ==
  SelectSeq(input_files, LAMBDA f : fnmatch(f, file_pattern))

\* the path of the output file
output_file_of(path_prefix, conversions_output_dir, name) ==
  PathJoin(PathJoin(path_prefix, conversions_output_dir), PathOf(name \o TxtSuffix))

\* the loop without the check of the name (as convert_files of main.py)
name_error_unchecked(conversion) == NoError

\* lines 78-83
name_error(conversion) ==
  IF Get(conversion.name, <<>>) = <<>> THEN ValueError(MsgName, <<>>) ELSE NoError

\* lines 87-95; an absent "input" gives no pattern to test, and the loop over an
\* "input" that is a number (or null, or a boolean) raises TypeError
input_error(conversion) ==
  IF conversion.input.kind = "number" THEN TypeError(MsgNotIterable)
  ELSE IF conversion.input.kind # "absent"
     /\ \E k \in DOMAIN conversion.input.pats : IsAbsolute(PathOf(conversion.input.pats[k]))
    THEN ValueError(MsgInputRelative, <<>>) ELSE NoError

\* lines 99-111
input_type_error(conversion) ==
  IF conversion.input.kind \notin {"list", "str"}
    THEN ValueError(MsgInputType, <<>>) ELSE NoError

\* the loop without the check of filtered_files
no_files_error_unchecked(file_pattern, filtered_files) == NoError

\* lines 118-121
no_files_error(file_pattern, filtered_files) ==
  IF filtered_files = <<>> THEN ValueError(MsgNoFiles, file_pattern) ELSE NoError

\* lines 127-131
pipeline_error(conversion) ==
  IF \E k \in DOMAIN Get(conversion.pipelines, <<>>) :
       IsAbsolute(PathOf(Get(conversion.pipelines, <<>>)[k]))
    THEN ValueError(MsgPipelineRelative, <<>>) ELSE NoError

\* the first error of a sequence of checks
RECURSIVE first_error(_)
first_error(checks) ==
  IF checks = <<>> THEN NoError
  ELSE IF Head(checks) # NoError THEN Head(checks)
  ELSE first_error(Tail(checks))

\* the first raise the planning of conversion reaches, or NoError
plan_error(conversion, file_pattern, filtered_files) ==
  first_error(<<name_error(conversion),
                input_error(conversion),
                input_type_error(conversion),
                no_files_error(file_pattern, filtered_files),
                pipeline_error(conversion)>>)

\* the values of one conversion, given its file pattern and filtered files
plan_record(fs, wd, path_prefix, conversions_output_dir, defaults, conversion, file_pattern, filtered_files) ==
  [error |-> plan_error(conversion, file_pattern, filtered_files),
   name |-> Get(conversion.name, <<>>),
   file_pattern |-> file_pattern,
   filtered_files |-> filtered_files,
   output_file |-> output_file_of(path_prefix, conversions_output_dir,
                                  Get(conversion.name, <<>>)),
   encoding |-> Get(conversion.encoding, Utf8),
   args |-> [target |-> Get(conversion.target, defaults.target),
             pipelines |-> pipeline_args(fs, wd, path_prefix,
                                         Get(conversion.pipelines, <<>>), file_pattern),
             format |-> Get(conversion.format, defaults.format),
             file_pattern |-> file_pattern,
             encoding |-> Get(conversion.encoding, Utf8),
             skip_unsupported |-> Get(conversion.skip_unsupported,
                                      defaults.skip_unsupported),
             files |-> filtered_files]]

plan_conversion(scan, fs, wd, path_prefix, conversions_output_dir, defaults, conversion) ==
  plan_record(fs, wd, path_prefix, conversions_output_dir, defaults, conversion,
              Get(conversion.file_pattern, defaults.file_pattern),
              filter_files(IF conversion.input.kind \in {"list", "str"}
                             THEN expand_input(scan, fs, wd, path_prefix, conversion.input.pats)
                             ELSE <<>>,
                           Get(conversion.file_pattern, defaults.file_pattern)))

\* the default values read from config["defaults"]
read_defaults(config) ==
  [target |-> Get(config.defaults.target, Loki),
   format |-> Get(config.defaults.format, FormatDefault),
   skip_unsupported |-> Get(config.defaults.skip_unsupported, TRUE),
   file_pattern |-> Get(config.defaults.file_pattern, StarYml)]

----------------------------------------------------------------------------
(* One run of convert_rules as a state machine.                            *)

VARIABLES
  cwd,        \* the working directory of the process (<<Gone, ...>>: deleted)
  fs,         \* the file system
  fs0,        \* the file system when the run started
  arg,        \* the arguments: config, path_prefix, conversions_output_dir
  pc,         \* the position in convert_rules
  path_prefix,             \* the local path_prefix once it is a resolved Path
  conversions_output_dir,  \* the local conversions_output_dir once joined
  defaults,   \* default_target, default_format, ...
  i,          \* the index of the current conversion in config["conversions"]
  plan,       \* the values planned for the current conversion
  result,     \* the engine's result for the current conversion
  raised,     \* the exception that ended the run, or NoError
  trace,      \* what has happened so far, in order
  invoked,    \* the engine invocations so far: conversion index and arguments
  written,    \* the writes completed so far: conversion index, path, text, bytes
  first,      \* when convert_rules is run twice: what the first run left
  rerun,      \* when convert_rules is run twice: the inputs of the second run
  scan        \* the order in which each directory lists its names, as far as
              \* the listings have shown it and the directory still holds them

vars == <<cwd, fs, fs0, arg, pc, path_prefix, conversions_output_dir, defaults, i,
          plan, result, raised, trace, invoked, written, first, rerun, scan>>

MaxJobs == 2

\* no listing has shown an order
NoListing == <<>>

Ev(what, job) == [ev |-> what, job |-> job]

NoPlan ==
  [error |-> NoError, name |-> <<>>, file_pattern |-> <<>>, filtered_files |-> <<>>,
   output_file |-> <<>>, encoding |-> <<>>,
   args |-> [target |-> <<>>, pipelines |-> <<>>, format |-> <<>>, file_pattern |-> <<>>,
             encoding |-> <<>>, skip_unsupported |-> TRUE, files |-> <<>>]]
NoResult == [exception |-> FALSE, stdout |-> <<>>]
\* a single run: there is no first run and no second one
NoFirst == <<>>
NoRerun == <<>>
NoDefaults == [target |-> <<>>, format |-> <<>>, skip_unsupported |-> TRUE,
               file_pattern |-> <<>>]

\* line 43: not path_prefix or path_prefix == Path(".").  A str is falsy when
\* empty and never equals a Path; a Path is always truthy.
path_prefix_unset(a) ==
  \/ a.type = "none"
  \/ a.type = "str" /\ a.s = <<>>
  \/ a.type = "path" /\ PathOf(a.s) = PathOf(<<".">>)

\* lines 42-54
CheckPathPrefix ==
  /\ pc = "start"
  /\ IF path_prefix_unset(arg.path_prefix)
       THEN /\ raised' = ValueError(MsgPathPrefix, <<>>)
            /\ pc' = "raised"
            /\ UNCHANGED path_prefix
       ELSE IF resolve_error(cwd, PathOf(arg.path_prefix.s))
         THEN /\ raised' = OSError("getcwd")
              /\ pc' = "raised"
              /\ UNCHANGED path_prefix
         ELSE /\ path_prefix' = IF IsAbsolute(PathOf(arg.path_prefix.s))
                                  THEN PathOf(arg.path_prefix.s)
                                  ELSE Resolve(cwd, PathOf(arg.path_prefix.s))
              /\ pc' = "validate"
              /\ UNCHANGED raised
  /\ trace' = Append(trace, Ev("check_prefix", 0))
  /\ UNCHANGED <<scan, first, rerun, cwd, fs, fs0, arg, conversions_output_dir, defaults, i, plan, result,
                 invoked, written>>

\* lines 56-59
ValidateOutputDir ==
  /\ pc = "validate"
  /\ LET joined == PathJoin(path_prefix, PathOf(arg.conversions_output_dir))
     IN /\ conversions_output_dir' = joined
        /\ IF is_safe_path(cwd, path_prefix, joined)
             THEN pc' = "remove" /\ UNCHANGED raised
             ELSE pc' = "raised" /\ raised' = ValueError(MsgOutside, <<>>)
  /\ trace' = Append(trace, Ev("validate", 0))
  /\ UNCHANGED <<scan, first, rerun, cwd, fs, fs0, arg, path_prefix, defaults, i, plan, result,
                 invoked, written>>

\* lines 61-63
RemoveOutputDir ==
  /\ pc = "remove"
  /\ IF PathIsDir(fs, cwd, conversions_output_dir)
       THEN LET gone == Rmtree(fs, cwd, conversions_output_dir)
            IN /\ fs' = gone.fs
               /\ cwd' = cwd_after_rmtree(cwd, Lookup(fs, cwd, conversions_output_dir).path,
                                          ~gone.ok)
               /\ trace' = Append(trace, Ev(IF gone.ok THEN "rmtree" ELSE "rmtree_failed", 0))
               /\ raised' = IF gone.ok THEN raised ELSE OSError("rmdir")
               /\ pc' = IF gone.ok THEN "create" ELSE "raised"
               /\ scan' = orders_kept(scan, fs, gone.fs)
       ELSE /\ UNCHANGED <<fs, cwd, raised, scan>>
            /\ trace' = Append(trace, Ev("no_rmtree", 0))
            /\ pc' = "create"
  /\ UNCHANGED <<first, rerun, fs0, arg, path_prefix, conversions_output_dir, defaults, i, plan,
                 result, invoked, written>>

\* lines 65-72
CreateOutputDir ==
  /\ pc = "create"
  /\ LET made == MkdirParents(fs, cwd, conversions_output_dir)
     IN /\ fs' = made.fs
        /\ scan' = orders_kept(scan, fs, made.fs)
        /\ IF made.ok
             THEN /\ pc' = "loop"
                  /\ defaults' = read_defaults(arg.config)
                  /\ trace' = Append(trace, Ev("mkdir", 0))
                  /\ UNCHANGED raised
             ELSE /\ pc' = "raised"
                  /\ raised' = OSError("mkdir")
                  /\ trace' = Append(trace, Ev("mkdir_failed", 0))
                  /\ UNCHANGED defaults
  /\ UNCHANGED <<first, rerun, cwd, fs0, arg, path_prefix, conversions_output_dir, i, plan, result,
                 invoked, written>>

\* line 75: the next conversion, or the end of the loop
NextConversion ==
  /\ pc = "loop"
  /\ IF i < Len(arg.config.conversions)
       THEN i' = i + 1 /\ pc' = "plan" /\ UNCHANGED trace
       ELSE pc' = "done" /\ trace' = Append(trace, Ev("return", 0)) /\ UNCHANGED i
  /\ UNCHANGED <<scan, first, rerun, cwd, fs, fs0, arg, path_prefix, conversions_output_dir, defaults, plan,
                 result, raised, invoked, written>>

\* the plan of conversion k when the directories list as scan says
plan_of(listing, k) ==
  plan_conversion(listing, fs, cwd, path_prefix, conversions_output_dir, defaults,
                  arg.config.conversions[k])

\* the orders that the listings of conversion k may show, given its plan
\* under one of them; fewer than two files show none
orders_of(k, planned) ==
  IF Len(planned.filtered_files) < 2 THEN {scan}
  ELSE orders_shown(scan, listed_input(listing_of(fs, scan), fs, cwd, path_prefix,
                                       arg.config.conversions[k].input.pats,
                                       planned.filtered_files))

\* lines 76-186.  A listing shows the order of the names it gives when two or
\* more of them reach the plan; that order is any that keeps what earlier
\* listings have shown.
PlanConversion ==
  /\ pc = "plan"
  /\ \E planned \in {plan_of(listing_of(fs, scan), i)} :
       \E orders \in {orders_of(i, planned)} : \E order \in orders :
         /\ scan' = order
         /\ plan' = IF order = scan THEN planned ELSE plan_of(listing_of(fs, order), i)
  /\ raised' = plan'.error
  /\ pc' = IF plan'.error = NoError THEN "invoke" ELSE "raised"
  /\ trace' = Append(trace, Ev("plan", i))
  /\ UNCHANGED <<first, rerun, cwd, fs, fs0, arg, path_prefix, conversions_output_dir, defaults, i,
                 result, invoked, written>>

----------------------------------------------------------------------------
(* The engine, sigma.cli.convert run by click's CliRunner, is a black box: *)
(* an invocation ends with an exception (after some output, perhaps) or    *)
(* with output on stdout.                                                  *)

OutBanner == Banner \o <<"\n">>
OutBlank == Banner \o <<"\n", " ", "\t", "\r", "\n">>
OutQuery == Banner \o <<"\n", "q", "\n">>
OutTwo == <<EACUTE, "\r", "\n", "x", " ">> \o Banner \o <<"\r", "r", "\n">>

EngineResults ==
  {[exception |-> TRUE, stdout |-> <<"q">>]}
    \cup {[exception |-> FALSE, stdout |-> o] : o \in {OutBanner, OutBlank, OutQuery, OutTwo}}

\* lines 188-189
InvokeEngine ==
  /\ pc = "invoke"
  /\ \E r \in EngineResults : result' = r
  /\ invoked' = Append(invoked, [job |-> i, args |-> plan.args, result |-> result'])
  /\ trace' = Append(trace, Ev("invoke", i))
  /\ pc' = "handle"
  /\ UNCHANGED <<scan, first, rerun, cwd, fs, fs0, arg, path_prefix, conversions_output_dir, defaults, i,
                 plan, raised, written>>

\* what the handling of a result does: the event, the file system afterwards, the
\* exception raised and, for a completed write, the text handed to f.write and
\* the bytes the file holds
Handled(event, fsAfter, error, text, data) ==
  [event |-> event, fs |-> fsAfter, error |-> error, text |-> text, data |-> data]

\* the output of a failed invocation written to the output file all the same
handle_exception_writes(f, wd, p, r) ==
  Handled("report_error",
          OpenWrite(f, wd, p.output_file, encode(strip(r.stdout), "utf-8").bytes).fs,
          NoError, <<>>, <<>>)

\* lines 191-200: the exception is printed and the loop goes on
handle_exception(f, wd, p, r) == Handled("report_error", f, NoError, <<>>, <<>>)

\* lines 212-216.  open(output_file, "w", encoding=encoding) fails with OSError
\* and leaves the file system alone when the path cannot be opened; otherwise it
\* creates the file, or empties the one that is there, and then looks up the
\* codec: an encoding without one raises LookupError.  f.write(text) encodes the
\* text: a character the codec has no bytes for raises UnicodeEncodeError, and
\* nothing reaches the file.  Neither exception is caught, so the run ends with
\* the file empty.  (Linux: "\n" is written as it is.)
write_output(f, wd, p, out) ==
  LET text == strip(out)
      opened == OpenWrite(f, wd, p.output_file, <<>>)
      codec == codec_of(p.encoding)
  IN IF ~opened.ok THEN Handled("write_failed", f, OSError("open"), <<>>, <<>>)
     ELSE IF codec = "unknown"
       THEN Handled("encoding_failed", opened.fs, LookupError(p.encoding), <<>>, <<>>)
     ELSE IF ~encode(text, codec).ok
       THEN Handled("encoding_failed", opened.fs, UnicodeEncodeError(codec), <<>>, <<>>)
     ELSE Handled("write", OpenWrite(f, wd, p.output_file, encode(text, codec).bytes).fs,
                  NoError, text, encode(text, codec).bytes)

\* lines 208-216
handle_output(f, wd, p, out) ==
  IF out = <<>> THEN Handled("skip", f, NoError, <<>>, <<>>)
  ELSE write_output(f, wd, p, out)

\* lines 191-217
handle_result(f, wd, p, r) ==
  IF r.exception THEN handle_exception(f, wd, p, r)
  ELSE handle_output(f, wd, p, filtered_output(r.stdout))

\* lines 191-217 for the conversion at hand; written keeps the completed writes
HandleResult ==
  /\ pc = "handle"
  /\ LET h == handle_result(fs, cwd, plan, result)
     IN /\ fs' = h.fs
        /\ scan' = orders_kept(scan, fs, h.fs)
        /\ raised' = h.error
        /\ trace' = Append(trace, Ev(h.event, i))
        /\ pc' = IF h.error = NoError THEN "loop" ELSE "raised"
        /\ written' = IF h.event = "write"
                        THEN Append(written,
                                    [job |-> i,
                                     path |-> Lookup(fs, cwd, plan.output_file).path,
                                     text |-> h.text,
                                     data |-> h.data])
                        ELSE written
  /\ UNCHANGED <<first, rerun, cwd, fs0, arg, path_prefix, conversions_output_dir, defaults, i, plan,
                 result, invoked>>

----------------------------------------------------------------------------
(* The runs the model explores.                                            *)

MkFs(entries) ==
  [q \in {e[1] : e \in entries} |-> (CHOOSE e \in entries : e[1] = q)[2]]

Root == <<"/">>
W == <<"/", "w">>

\* the project: /w with the rules /w/r/a.yml and /w/r/b.j and the pipeline file
\* /w/p.yml; /o/k.txt lies outside it
ProjectFiles ==
  {<<PathOf(Root), DirNode>>,
   <<PathOf(W), DirNode>>,
   <<PathOf(W \o <<"/", "r">>), DirNode>>,
   <<PathOf(W \o <<"/", "r", "/", "a", ".", "y", "m", "l">>), FileNode(<<120>>)>>,
   <<PathOf(W \o <<"/", "r", "/", "b", ".", "j">>), FileNode(<<121>>)>>,
   <<PathOf(W \o <<"/", "p", ".", "y", "m", "l">>), FileNode(<<122>>)>>,
   <<PathOf(<<"/", "o">>), DirNode>>,
   <<PathOf(<<"/", "o", "/", "k", ".", "t", "x", "t">>), FileNode(<<107>>)>>}

\* what a previous run left in /w/c
StaleDir ==
  {<<PathOf(W \o <<"/", "c">>), DirNode>>,
   <<PathOf(W \o <<"/", "c", "/", "o", "l", "d", ".", "t", "x", "t">>),
     FileNode(<<111, 108, 100>>)>>}

FileSystems ==
  {MkFs(ProjectFiles),
   MkFs(ProjectFiles \cup StaleDir),
   MkFs(ProjectFiles \cup StaleDir \cup {<<PathOf(W \o <<"/", "s">>), DirNode>>}),
   MkFs(ProjectFiles \cup {<<PathOf(W \o <<"/", "c">>), FileNode(<<111, 108, 100>>)>>})}

\* working directory and path_prefix argument
Str(s) == [type |-> "str", s |-> s]
Pth(s) == [type |-> "path", s |-> s]
Prefixes ==
  {[cwd |-> PathOf(Root), path_prefix |-> [type |-> "none", s |-> <<>>]],
   [cwd |-> PathOf(Root), path_prefix |-> Str(<<>>)],
   [cwd |-> PathOf(W), path_prefix |-> Pth(<<".">>)],
   [cwd |-> PathOf(W), path_prefix |-> Str(<<".">>)],
   [cwd |-> PathOf(Root), path_prefix |-> Str(W)],
   [cwd |-> PathOf(Root), path_prefix |-> Pth(<<"w">>)]}

OutputDirs ==
  {<<"c">>,
   <<".", ".", "/", "o">>,
   <<"/", "o">>,
   <<".">>,
   W \o <<"/", "c">>,
   <<"s", "/", ".", ".", "/", "c">>,
   <<"c", "/", ".", ".">>}

RulesYml == <<"r", "/", "*", ".", "y", "m", "l">>
AbsRulesYml == W \o <<"/">> \o RulesYml
AbsPipeline == <<"/", "p", ".", "y", "m", "l">>

Conversions ==
  {Conversion(Some(<<"a">>), "list", <<RulesYml>>, None, None),
   Conversion(Some(<<"b">>), "str", <<(<<"r", "/", "*">>)>>, Some(<<"*", ".", "j">>),
              Some(<<(<<"p", ".", "y", "m", "l">>), <<"n">>>>)),
   Conversion(None, "list", <<RulesYml>>, None, None),
   Conversion(Some(<<>>), "list", <<AbsRulesYml>>, None, None),
   Conversion(Some(<<"a">>), "list", <<RulesYml, AbsRulesYml>>, None, None),
   Conversion(Some(<<"a">>), "list", <<RulesYml>>, None, Some(<<(<<"n">>), AbsPipeline>>)),
   Conversion(Some(<<"c">>), "list", <<RulesYml>>, Some(<<"*", ".", "z">>),
              Some(<<AbsPipeline>>)),
   Conversion(Some(<<"d">>), "absent", <<>>, None, Some(<<AbsPipeline>>)),
   Conversion(Some(<<"x", "/", "y">>), "list", <<RulesYml>>, None, None)}

SeqsUpTo(S, n) == UNION {[1 .. k -> S] : k \in 0 .. n}

Configs ==
  {[defaults |-> [target |-> None, format |-> None, skip_unsupported |-> None,
                  file_pattern |-> None, encoding |-> None],
    conversions |-> cs] : cs \in SeqsUpTo(Conversions, MaxJobs)}

Init ==
  /\ \E e \in Prefixes, o \in OutputDirs, c \in Configs :
       /\ cwd = e.cwd
       /\ arg = [config |-> c, path_prefix |-> e.path_prefix,
                 conversions_output_dir |-> o]
  /\ fs \in FileSystems
  /\ fs0 = fs
  /\ pc = "start"
  /\ path_prefix = <<>>
  /\ conversions_output_dir = <<>>
  /\ defaults = NoDefaults
  /\ i = 0
  /\ plan = NoPlan
  /\ result = NoResult
  /\ raised = NoError
  /\ trace = <<>>
  /\ invoked = <<>>
  /\ written = <<>>
  /\ first = NoFirst
  /\ scan = NoListing
  /\ rerun = NoRerun

Next ==
  \/ CheckPathPrefix
  \/ ValidateOutputDir
  \/ RemoveOutputDir
  \/ CreateOutputDir
  \/ NextConversion
  \/ PlanConversion
  \/ InvokeEngine
  \/ HandleResult

Spec == Init /\ [][Next]_vars

----------------------------------------------------------------------------
(* is_safe_path on its own: one call with a base directory and a target    *)
(* path built from the segments w, o and .., relative or absolute, made in *)
(* the working directory /, /w, or a deleted directory of /w.              *)

MaxDepth == 2
Segments == {<<"w">>, <<"o">>, DOTDOT}
RelativeStrings == {JoinWith(segs, <<"/">>) : segs \in SeqsUpTo(Segments, MaxDepth)}
PathStrings ==
  RelativeStrings \cup {<<"/">> \o r : r \in RelativeStrings}
                  \cup {<<"/", "/">> \o r : r \in RelativeStrings}

\* the variables of the run keep their initial values
NoRun ==
  /\ fs = MkFs(ProjectFiles)
  /\ fs0 = fs
  /\ path_prefix = <<>>
  /\ conversions_output_dir = <<>>
  /\ defaults = NoDefaults
  /\ i = 0
  /\ plan = NoPlan
  /\ raised = NoError
  /\ trace = <<>>
  /\ invoked = <<>>
  /\ written = <<>>
  /\ first = NoFirst
  /\ scan = NoListing
  /\ rerun = NoRerun

InitSafePath ==
  /\ cwd \in {PathOf(Root), PathOf(W), <<Gone>> \o PathOf(W)}
  /\ arg \in [base_dir : PathStrings, target_path : PathStrings]
  /\ pc = "call"
  /\ result = [value |-> FALSE]
  /\ NoRun

CallIsSafePath ==
  /\ pc = "call"
  /\ IF is_safe_path_error(cwd, PathOf(arg.base_dir), PathOf(arg.target_path))
       THEN /\ raised' = OSError("getcwd")
            /\ pc' = "raised"
            /\ UNCHANGED result
       ELSE /\ result' = [value |-> is_safe_path(cwd, PathOf(arg.base_dir),
                                                  PathOf(arg.target_path))]
            /\ pc' = "returned"
            /\ UNCHANGED raised
  /\ UNCHANGED <<scan, first, rerun, cwd, fs, fs0, arg, path_prefix, conversions_output_dir, defaults, i,
                 plan, trace, invoked, written>>

NextSafePath == CallIsSafePath

SpecSafePath == InitSafePath /\ [][NextSafePath]_vars

----------------------------------------------------------------------------
(* is_path on its own: one call with a reference made of at most MaxParts  *)
(* of the pieces below and a file pattern, made in the working directory   *)
(* /, /w of the project, or a deleted directory of /w.                     *)

MaxParts == 3
Pieces == {<<"/">>, <<".">>, <<"p">>, <<"y", "m", "l">>, <<"j">>, <<"r">>}
References == {Flatten(ps) : ps \in SeqsUpTo(Pieces, MaxParts)}
FilePatterns == {StarYml, <<"*", ".", "j">>, <<"*">>, <<"*", ".", "[", "j", "y", "]", "*">>}

InitIsPath ==
  /\ cwd \in {PathOf(Root), PathOf(W), <<Gone>> \o PathOf(W)}
  /\ arg \in [path_string : References, file_pattern : FilePatterns]
  /\ pc = "call"
  /\ result = [value |-> FALSE]
  /\ NoRun

CallIsPath ==
  /\ pc = "call"
  /\ result' = [value |-> is_path(fs, cwd, arg.path_string, arg.file_pattern)]
  /\ pc' = "returned"
  /\ UNCHANGED <<scan, first, rerun, cwd, fs, fs0, arg, path_prefix, conversions_output_dir, defaults, i,
                 plan, raised, trace, invoked, written>>

NextIsPath == CallIsPath

SpecIsPath == InitIsPath /\ [][NextIsPath]_vars

----------------------------------------------------------------------------
(* convert_rules run twice, with an engine that is a function of its       *)
(* arguments: an invocation with arguments seen before, in this run or in  *)
(* the first one, returns what it returned then.  The second run starts    *)
(* when the first has ended, in the working directory the first started    *)
(* in, with the configuration rerun.config and on the file system the      *)
(* first run left (rerun.left) or on the file system rerun.fs, whose       *)
(* directories have shown no order yet.                                    *)

Snapshot ==
  [fs |-> fs, fs0 |-> fs0, pc |-> pc, raised |-> raised, path_prefix |-> path_prefix,
   config |-> arg.config, invoked |-> invoked, written |-> written]

StartSecondRun ==
  /\ pc \in {"done", "raised"}
  /\ first = NoFirst
  /\ rerun # NoRerun
  /\ first' = Snapshot
  /\ fs' = IF rerun.left THEN fs ELSE rerun.fs
  /\ fs0' = fs'
  /\ cwd' = rerun.cwd
  /\ arg' = [arg EXCEPT !.config = rerun.config]
  /\ pc' = "start"
  /\ path_prefix' = <<>>
  /\ conversions_output_dir' = <<>>
  /\ defaults' = NoDefaults
  /\ i' = 0
  /\ plan' = NoPlan
  /\ result' = NoResult
  /\ raised' = NoError
  /\ trace' = <<>>
  /\ invoked' = <<>>
  /\ written' = <<>>
  /\ scan' = IF rerun.left THEN scan ELSE NoListing
  /\ UNCHANGED rerun

\* the invocations so far, of both runs
Earlier == (IF first = NoFirst THEN <<>> ELSE first.invoked) \o invoked

SameEngineResults(args) ==
  IF \E e \in Range(Earlier) : e.args = args
    THEN {e.result : e \in {x \in Range(Earlier) : x.args = args}}
    ELSE {[exception |-> TRUE, stdout |-> <<"q">>]}
           \cup {[exception |-> FALSE, stdout |-> o] : o \in {OutBanner, OutQuery, OutTwo}}

\* lines 188-189, with that engine
InvokeSameEngine ==
  /\ pc = "invoke"
  /\ \E r \in SameEngineResults(plan.args) : result' = r
  /\ invoked' = Append(invoked, [job |-> i, args |-> plan.args, result |-> result'])
  /\ trace' = Append(trace, Ev("invoke", i))
  /\ pc' = "handle"
  /\ UNCHANGED <<scan, first, rerun, cwd, fs, fs0, arg, path_prefix, conversions_output_dir,
                 defaults, i, plan, raised, written>>

NextTwice ==
  \/ CheckPathPrefix
  \/ ValidateOutputDir
  \/ RemoveOutputDir
  \/ CreateOutputDir
  \/ NextConversion
  \/ PlanConversion
  \/ InvokeSameEngine
  \/ HandleResult
  \/ StartSecondRun

\* the conversions of the double runs: two of the name a with different files,
\* one of another name, one without a name and one whose name has a separator
ConversionA == Conversion(Some(<<"a">>), "list", <<RulesYml>>, None, None)
ConversionA2 ==
  Conversion(Some(<<"a">>), "str", <<(<<"r", "/", "*">>)>>, Some(<<"*", ".", "j">>), None)
ConversionB == Conversion(Some(<<"b">>), "list", <<RulesYml>>, None, Some(<<(<<"n">>)>>))
ConversionNameless == Conversion(None, "list", <<RulesYml>>, None, None)
ConversionXY == Conversion(Some(<<"x", "/", "y">>), "list", <<RulesYml>>, None, None)

\* a conversion whose name differs from "a" and whose output file is a.txt
ConversionDotA == Conversion(Some(<<".", "/", "a">>), "list", <<RulesYml>>, None, Some(<<(<<"m">>)>>))
\* a conversion of every file of r: its listing shows two names
ConversionAll == Conversion(Some(<<"e">>), "str", <<(<<"r", "/", "*">>)>>, Some(<<"*">>), None)
\* a conversion that takes the files of the output directory "c" as input
ConversionReader == Conversion(Some(<<"d">>), "list", <<RulesYml, (<<"c", "/", "*">>)>>, Some(<<"*">>), None)

ConfigsOf(conversions) ==
  {[defaults |-> [target |-> None, format |-> None, skip_unsupported |-> None,
                  file_pattern |-> None, encoding |-> None],
    conversions |-> cs] : cs \in SeqsUpTo(conversions, MaxJobs)}

InitRun ==
  /\ fs0 = fs
  /\ pc = "start"
  /\ path_prefix = <<>>
  /\ conversions_output_dir = <<>>
  /\ defaults = NoDefaults
  /\ i = 0
  /\ plan = NoPlan
  /\ result = NoResult
  /\ raised = NoError
  /\ trace = <<>>
  /\ invoked = <<>>
  /\ written = <<>>
  /\ first = NoFirst
  /\ scan = NoListing

\* the same configuration run again: on what the first run left, or on a file
\* system with the same project and another content of the output directory
InitRerun ==
  /\ cwd = PathOf(Root)
  /\ \E o \in {<<"c">>, <<"s", "/", ".", ".", "/", "c">>},
        c \in ConfigsOf({ConversionA, ConversionB, ConversionNameless, ConversionAll}) :
       /\ arg = [config |-> c, path_prefix |-> Str(W), conversions_output_dir |-> o]
       /\ fs \in FileSystems
       /\ \/ rerun = [config |-> c, cwd |-> cwd, left |-> TRUE, fs |-> fs]
          \/ \E f \in FileSystems : rerun = [config |-> c, cwd |-> cwd, left |-> FALSE, fs |-> f]
  /\ InitRun

SpecRerun == InitRerun /\ [][NextTwice]_vars

\* the conversions of a configuration in another order
Reordered(cs) == {[k \in DOMAIN cs |-> cs[pi[k]]] : pi \in Permutations(DOMAIN cs)}

\* a configuration of different conversions, and then the same conversions in
\* another order, run on the same files
InitPermuted ==
  /\ cwd = PathOf(Root)
  /\ fs \in {MkFs(ProjectFiles), MkFs(ProjectFiles \cup StaleDir)}
  /\ \E c \in ConfigsOf({ConversionA, ConversionB, ConversionNameless, ConversionDotA,
                         ConversionReader, ConversionAll}) :
       /\ \A j, k \in DOMAIN c.conversions : j # k => c.conversions[j] # c.conversions[k]
       /\ arg = [config |-> c, path_prefix |-> Str(W), conversions_output_dir |-> <<"c">>]
       /\ \E cs \in Reordered(c.conversions) :
            rerun = [config |-> [c EXCEPT !.conversions = cs], cwd |-> cwd,
                     left |-> FALSE, fs |-> fs]
  /\ InitRun

SpecPermuted == InitPermuted /\ [][NextTwice]_vars

----------------------------------------------------------------------------
(* Runs of one conversion in which each of target, format,                 *)
(* skip-unsupported, file-pattern and encoding is or is not set in         *)
(* config["defaults"] and in the conversion.                               *)

Optional(v) == {None, Some(v)}

ConfiguredDefaults ==
  [target : Optional(<<"splunk">>), format : Optional(<<"ruler">>),
   skip_unsupported : Optional(FALSE), file_pattern : Optional(<<"*", ".", "j">>),
   encoding : Optional(<<"latin-1">>)]

ConversionFields ==
  [target : Optional(<<"elastic">>), format : Optional(<<"json">>),
   skip_unsupported : {None, Some(TRUE), Some(FALSE)}, file_pattern : Optional(<<"*">>),
   encoding : Optional(<<"ascii">>)]

\* the conversion "a" of every file of r, with the fields f
ConversionWith(f) ==
  [name |-> Some(<<"a">>), input |-> [kind |-> "str", pats |-> <<(<<"r", "/", "*">>)>>],
   file_pattern |-> f.file_pattern, pipelines |-> None, target |-> f.target,
   format |-> f.format, skip_unsupported |-> f.skip_unsupported, encoding |-> f.encoding]

InitDefaults ==
  /\ cwd = PathOf(Root)
  /\ fs \in {MkFs(ProjectFiles), MkFs(ProjectFiles \cup StaleDir)}
  /\ \E d \in ConfiguredDefaults, f \in ConversionFields :
       arg = [config |-> [defaults |-> d, conversions |-> <<ConversionWith(f)>>],
              path_prefix |-> Str(W), conversions_output_dir |-> <<"c">>]
  /\ rerun = NoRerun
  /\ InitRun

SpecDefaults == InitDefaults /\ [][Next]_vars

----------------------------------------------------------------------------
(* Runs of one conversion whose "input" is absent, a number, a string or a *)
(* list, with and without a name, under the file patterns that keep the    *)
(* rule, the other file, nothing or every file, without pipelines or with  *)
(* an absolute pipeline reference.                                         *)

InputOf(kind, pats) == [kind |-> kind, pats |-> pats]

Inputs ==
  {InputOf("absent", <<>>), InputOf("number", <<>>), InputOf("list", <<>>),
   InputOf("str", <<RulesYml>>), InputOf("list", <<RulesYml>>),
   InputOf("str", <<(<<"r", "/", "*">>)>>), InputOf("list", <<(<<"r", "/", "*">>)>>),
   InputOf("list", <<RulesYml, (<<"r", "/", "*">>)>>),
   InputOf("str", <<AbsRulesYml>>), InputOf("list", <<AbsRulesYml>>),
   InputOf("list", <<(<<".", ".", "/", "o", "/", "*">>)>>),
   InputOf("list", <<(<<"r", "/", "[", "!", "b", "-", "z", "]", "*">>)>>),
   InputOf("list", <<(<<"*">>)>>), InputOf("str", <<(<<"*", "*">>)>>)}

InitInput ==
  /\ cwd = PathOf(Root)
  /\ fs \in {MkFs(ProjectFiles), MkFs(ProjectFiles \cup StaleDir)}
  /\ \E n \in Optional(<<"a">>), x \in Inputs,
        p \in {None, Some(<<"*", ".", "j">>), Some(<<"*", ".", "z">>), Some(<<"*">>)},
        q \in Optional(<<AbsPipeline>>) :
       arg = [config |-> [defaults |-> [target |-> None, format |-> None,
                                        skip_unsupported |-> None, file_pattern |-> None,
                                        encoding |-> None],
                          conversions |-> <<Conversion(n, x.kind, x.pats, p, q)>>],
              path_prefix |-> Str(W), conversions_output_dir |-> <<"c">>]
  /\ rerun = NoRerun
  /\ InitRun

SpecInput == InitInput /\ [][Next]_vars

----------------------------------------------------------------------------
(* Runs of conversions whose names are path-like: with a separator, with   *)
(* ".." components that lead to the project root or out of it, absolute.   *)

Names ==
  {<<"a">>, <<".", "/", "a">>, <<"x", "/", "y">>, <<".", ".", "/", "z">>,
   <<".", ".", "/", ".", ".", "/", "o", "/", "k">>, <<"/", "o", "/", "z">>}

NamedConversions == {Conversion(Some(n), "list", <<RulesYml>>, None, None) : n \in Names}

InitNames ==
  /\ cwd = PathOf(Root)
  /\ fs \in {MkFs(ProjectFiles), MkFs(ProjectFiles \cup StaleDir)}
  /\ \E c \in ConfigsOf(NamedConversions) :
       arg = [config |-> c, path_prefix |-> Str(W), conversions_output_dir |-> <<"c">>]
  /\ rerun = NoRerun
  /\ InitRun

SpecNames == InitNames /\ [][Next]_vars

----------------------------------------------------------------------------
(* Runs of conversions named a or b of the rule r/a.yml, each with no      *)
(* "encoding", with one that has bytes for every character (utf-8 is the   *)
(* default), for some (latin-1), for fewer (ascii), or with a name no      *)
(* codec is registered for.                                                *)

Encodings == {None, Some(<<"ascii">>), Some(<<"latin-1">>), Some(<<"nope">>)}

Encoded(conversion, encoding) == [conversion EXCEPT !.encoding = encoding]

EncodedConversions ==
  {Encoded(Conversion(Some(n), "list", <<RulesYml>>, None, None), e) :
     n \in {<<"a">>, <<"b">>}, e \in Encodings}

InitEncoding ==
  /\ cwd = PathOf(Root)
  /\ fs \in {MkFs(ProjectFiles), MkFs(ProjectFiles \cup StaleDir)}
  /\ \E c \in ConfigsOf(EncodedConversions) :
       arg = [config |-> c, path_prefix |-> Str(W), conversions_output_dir |-> <<"c">>]
  /\ rerun = NoRerun
  /\ InitRun

SpecEncoding == InitEncoding /\ [][Next]_vars

----------------------------------------------------------------------------
(* Vocabulary of the properties.                                           *)

Terminal == pc \in {"done", "raised"}
NJobs == Len(arg.config.conversions)
JobAt(j) == arg.config.conversions[j]

Happened(what) == \E k \in DOMAIN trace : trace[k].ev = what
HappenedFor(what, j) == \E k \in DOMAIN trace : trace[k] = Ev(what, j)

WasInvoked(j) == \E k \in DOMAIN invoked : invoked[k].job = j
ResultOf(j) == (CHOOSE e \in Range(invoked) : e.job = j).result
WasHandled(j) ==
  HappenedFor("report_error", j) \/ HappenedFor("skip", j) \/ HappenedFor("write", j)
    \/ HappenedFor("write_failed", j) \/ HappenedFor("encoding_failed", j)
WroteFile(j) == \E k \in DOMAIN written : written[k].job = j

Failed(j) == WasInvoked(j) /\ ResultOf(j).exception
\* the content left of an output once the banner lines are removed and the rest
\* is trimmed
Content(stdout) == strip(filtered_output(stdout))
SucceededWithOutput(j) ==
  WasInvoked(j) /\ ~ResultOf(j).exception /\ Content(ResultOf(j).stdout) # <<>>
SucceededEmpty(j) ==
  WasInvoked(j) /\ ~ResultOf(j).exception /\ Content(ResultOf(j).stdout) = <<>>
\* the bytes of a text in the encoding of conversion j
CodecOf(j) == codec_of(Get(JobAt(j).encoding, Utf8))
BytesOf(j, text) == encode(text, CodecOf(j)).bytes
Encodable(j, text) == CodecOf(j) # "unknown" /\ encode(text, CodecOf(j)).ok

ProperAncestor(a, b) == Len(a) < Len(b) /\ SubSeq(b, 1, Len(a)) = a
Inside(root, p) == p = root \/ ProperAncestor(root, p)

\* the output directory and the output file of conversion j, normalised
OutputDirPath ==
  Resolve(<<SLASH>>, PathJoin(path_prefix, PathOf(arg.conversions_output_dir)))
ExpectedFile(j) ==
  Resolve(<<SLASH>>,
          PathJoin(PathJoin(path_prefix, PathOf(arg.conversions_output_dir)),
                   PathOf(Get(JobAt(j).name, <<>>) \o TxtSuffix)))
IsFile(q) == q \in DOMAIN fs /\ fs[q].kind = "file"

NameMissing(j) == JobAt(j).name = None \/ JobAt(j).name = Some(<<>>)
InputPatterns(j) == IF JobAt(j).input.kind = "absent" THEN <<>> ELSE JobAt(j).input.pats
HasAbsoluteInput(j) == \E k \in DOMAIN InputPatterns(j) : StartsWith(InputPatterns(j)[k], "/")
HasAbsolutePipeline(j) ==
  \E k \in DOMAIN Get(JobAt(j).pipelines, <<>>) :
     StartsWith(Get(JobAt(j).pipelines, <<>>)[k], "/")
InputUsable(j) == JobAt(j).input.kind \in {"list", "str"}
FilePatternOf(j) ==
  Get(JobAt(j).file_pattern, Get(arg.config.defaults.file_pattern, StarYml))
\* plan holds the values of conversion i from its planning on
PlanIsCurrent == i >= 1 /\ HappenedFor("plan", i)

----------------------------------------------------------------------------
(* C1: when the output directory, joined to the project root and           *)
(* normalised, is neither the root nor below it, the run raises            *)
(* ValueError("... outside the project root") and until then nothing is    *)
(* deleted, created, planned or invoked.                                   *)

C1_Outside == path_prefix # <<>> /\ ~Inside(Resolve(<<SLASH>>, path_prefix), OutputDirPath)

C1_OutsideRootRaises ==
  C1_Outside =>
    /\ fs = fs0
    /\ invoked = <<>> /\ written = <<>>
    /\ \A k \in DOMAIN trace : trace[k].ev \in {"check_prefix", "validate"}
    /\ Happened("validate") => pc = "raised" /\ raised = ValueError(MsgOutside, <<>>)

\* the escape ../o was refused although /o exists and conversions are configured
C1_Witness ==
  /\ pc = "raised" /\ raised = ValueError(MsgOutside, <<>>)
  /\ arg.conversions_output_dir = <<".", ".", "/", "o">>
  /\ PathOf(<<"/", "o">>) \in DOMAIN fs
  /\ NJobs > 0

----------------------------------------------------------------------------
(* C2: failure isolation.  When a run in which every planned conversion    *)
(* passed its planning ends, and the invocation of conversion k failed,    *)
(* every other conversion whose invocation succeeded with content has its  *)
(* output file on disk.                                                    *)

C2_SucceededJobsHaveFiles ==
  (Terminal /\ raised.type # "ValueError") =>
    \A k \in 1 .. NJobs : Failed(k) =>
       \A j \in (1 .. NJobs) \ {k} : SucceededWithOutput(j) => IsFile(ExpectedFile(j))

----------------------------------------------------------------------------
(* What holds of failure isolation: in a run that ends with neither a      *)
(* ValueError nor an OSError (of mkdir or of open) every conversion was    *)
(* invoked, and if the invocation of conversion k failed, every other      *)
(* conversion whose invocation succeeded with content has its output file  *)
(* on disk.                                                                *)

EngineFailuresIsolated ==
  (Terminal /\ raised.type \notin {"ValueError", "OSError"}) =>
    /\ \A j \in 1 .. NJobs : WasInvoked(j)
    /\ \A k \in 1 .. NJobs : Failed(k) =>
         \A j \in (1 .. NJobs) \ {k} : SucceededWithOutput(j) => IsFile(ExpectedFile(j))

\* the first conversion failed and the second one still wrote its file
EngineFailureIsolatedOnce ==
  /\ pc = "done" /\ NJobs = 2
  /\ Failed(1) /\ SucceededWithOutput(2) /\ IsFile(ExpectedFile(2))

----------------------------------------------------------------------------
(* C5: a conversion whose invocation succeeds with output that is empty    *)
(* once the banner lines are removed and the rest is trimmed creates no    *)
(* file and raises nothing, and the loop goes on.                          *)

C5_EmptyOutputSkipped ==
  \A j \in 1 .. NJobs :
    (SucceededEmpty(j) /\ WasHandled(j)) =>
       /\ HappenedFor("skip", j)
       /\ ~WroteFile(j)
       /\ ~(pc = "raised" /\ i = j)

----------------------------------------------------------------------------
(* C6: the engine is never invoked with an empty file set; planning a      *)
(* conversion whose filtered file set is empty raises the ValueError that  *)
(* names the file pattern applied, and the run ends.                       *)

C6_EmptyFileSetIsFatal ==
  /\ \A k \in DOMAIN invoked : invoked[k].args.files # <<>>
  /\ (/\ PlanIsCurrent
      /\ ~NameMissing(i) /\ ~HasAbsoluteInput(i) /\ InputUsable(i)
      /\ plan.filtered_files = <<>>)
     => /\ pc = "raised"
        /\ raised = ValueError(MsgNoFiles, FilePatternOf(i))
        /\ ~WasInvoked(i)

\* the second conversion matched no file after the first one had been invoked
C6_Witness ==
  /\ pc = "raised" /\ raised.msg = MsgNoFiles /\ raised.detail = <<"*", ".", "z">>
  /\ i = 2 /\ WasInvoked(1) /\ ~WasInvoked(2)

----------------------------------------------------------------------------
(* C7: planning a conversion without a name (absent or empty) raises the   *)
(* ValueError "Conversion name is required ..."; the engine is not invoked *)
(* for it and nothing happens for any later conversion.                    *)

C7_MissingNameIsFatal ==
  \A j \in 1 .. NJobs :
    (NameMissing(j) /\ HappenedFor("plan", j)) =>
       /\ pc = "raised" /\ raised = ValueError(MsgName, <<>>) /\ i = j
       /\ \A k \in DOMAIN trace : trace[k].job <= j
       /\ \A k \in DOMAIN trace : trace[k].job = j => trace[k].ev = "plan"
       /\ \A k \in DOMAIN invoked : invoked[k].job < j
       /\ \A k \in DOMAIN written : written[k].job < j

\* a nameless conversion ended the run while a later conversion was still to come
C7_Witness ==
  /\ pc = "raised" /\ raised.msg = MsgName
  /\ i < NJobs /\ NameMissing(i)

----------------------------------------------------------------------------
(* C8: planning a conversion that has an absolute input pattern or an      *)
(* absolute pipeline reference raises a ValueError "... must be relative   *)
(* to the project root", and the engine is not invoked for it.             *)

MustBeRelative == {MsgInputRelative, MsgPipelineRelative}

C8_AbsoluteAlwaysMustBeRelative ==
  \A j \in 1 .. NJobs :
    ((HasAbsoluteInput(j) \/ HasAbsolutePipeline(j)) /\ HappenedFor("plan", j)) =>
       /\ pc = "raised" /\ raised.type = "ValueError" /\ raised.msg \in MustBeRelative
       /\ ~WasInvoked(j)

\* what holds of such a conversion: its planning raises the first error of the
\* checks in the order name, input patterns, input type, file set, pipelines,
\* and the engine is not invoked for it
AbsoluteIsFatal ==
  \A j \in 1 .. NJobs :
    ((HasAbsoluteInput(j) \/ HasAbsolutePipeline(j)) /\ HappenedFor("plan", j)) =>
       /\ pc = "raised" /\ i = j
       /\ ~WasInvoked(j)
       /\ raised = IF NameMissing(j) THEN ValueError(MsgName, <<>>)
                   ELSE IF JobAt(j).input.kind = "number" THEN TypeError(MsgNotIterable)
                   ELSE IF HasAbsoluteInput(j) THEN ValueError(MsgInputRelative, <<>>)
                   ELSE IF ~InputUsable(j) THEN ValueError(MsgInputType, <<>>)
                   ELSE IF plan.filtered_files = <<>>
                     THEN ValueError(MsgNoFiles, FilePatternOf(j))
                   ELSE ValueError(MsgPipelineRelative, <<>>)

\* the same of the conversions whose other settings are in order
AbsoluteOfSoundConversionMustBeRelative ==
  \A j \in 1 .. NJobs :
    (/\ HasAbsoluteInput(j) \/ HasAbsolutePipeline(j)
     /\ HappenedFor("plan", j)
     /\ ~NameMissing(j) /\ JobAt(j).input.kind # "number"
     /\ HasAbsoluteInput(j) \/ (InputUsable(j) /\ plan.filtered_files # <<>>)) =>
       /\ pc = "raised" /\ raised.type = "ValueError" /\ raised.msg \in MustBeRelative
       /\ ~WasInvoked(j)

----------------------------------------------------------------------------
(* C9: a path prefix that is unset, empty or "." makes the run raise       *)
(* ValueError("Path prefix must be set ...") before anything else happens. *)

C9_UnsetPrefix ==
  arg.path_prefix.type = "none" \/ arg.path_prefix.s \in {<<>>, <<".">>}

C9_UnsetPrefixRaises ==
  (C9_UnsetPrefix /\ Happened("check_prefix")) =>
     /\ pc = "raised" /\ raised = ValueError(MsgPathPrefix, <<>>)
     /\ fs = fs0 /\ Len(trace) = 1 /\ invoked = <<>> /\ written = <<>>

----------------------------------------------------------------------------
(* C10: the output directory is deleted if present and recreated empty     *)
(* once, after its validation and before the first conversion; when the    *)
(* run ends every file in it was written by a conversion of the run.       *)

Count(what) == Cardinality({k \in DOMAIN trace : trace[k].ev = what})
Below(d) == {q \in DOMAIN fs : ProperAncestor(d, q)}

C10_ResetOnce ==
  /\ Count("rmtree") <= 1 /\ Count("mkdir") <= 1
  /\ \A k \in DOMAIN trace :
       trace[k].ev \in {"rmtree", "no_rmtree", "mkdir"} =>
          /\ \E v \in 1 .. (k - 1) : trace[v].ev = "validate"
          /\ \A e \in 1 .. (k - 1) : trace[e].job = 0
  /\ \A k \in DOMAIN trace : trace[k].job > 0 => \E m \in 1 .. (k - 1) : trace[m].ev = "mkdir"
  /\ (Happened("no_rmtree") \/ Happened("rmtree")) =>
        (Happened("rmtree") <=> (OutputDirPath \in DOMAIN fs0
                                 /\ fs0[OutputDirPath].kind = "dir"))
  /\ (pc = "loop" /\ i = 0) =>
        /\ OutputDirPath \in DOMAIN fs /\ fs[OutputDirPath].kind = "dir"
        /\ Below(OutputDirPath) = {}
  /\ (Terminal /\ Happened("mkdir")) =>
        \A q \in Below(OutputDirPath) :
           fs[q].kind = "file" => \E k \in DOMAIN written : written[k].path = q

----------------------------------------------------------------------------
(* C3: is_safe_path(R, C) is true exactly when the normalised C equals the *)
(* normalised R or the normalised R is a proper ancestor of it.  A path is *)
(* normalised by making it absolute in the working directory and then      *)
(* removing empty and "." segments and each ".." with the segment before   *)
(* it (the file system has no symbolic links).                             *)

RECURSIVE NormaliseAcc(_, _)
NormaliseAcc(segs, acc) ==
  IF segs = <<>> THEN acc
  ELSE LET seg == Head(segs)
       IN NormaliseAcc(Tail(segs),
                       IF seg = <<>> \/ seg = <<".">> THEN acc
                       ELSE IF seg = DOTDOT
                            THEN (IF acc = <<>> THEN acc ELSE SubSeq(acc, 1, Len(acc) - 1))
                            ELSE Append(acc, seg))

Normalise(wd, s) ==
  NormaliseAcc((IF StartsWith(s, "/") THEN <<>> ELSE SubSeq(wd, 2, Len(wd)))
                 \o Split(s, "/"), <<>>)

C3_SafeIffInside ==
  pc = "returned" =>
    (result.value <=> Inside(Normalise(cwd, arg.base_dir), Normalise(cwd, arg.target_path)))

\* the relative escape ../o from the working directory /w was refused for the root w
C3_Witness ==
  /\ pc = "returned" /\ ~result.value
  /\ cwd = PathOf(W)
  /\ arg.base_dir = <<"/", "w">> /\ arg.target_path = <<".", ".", "/", "o">>

----------------------------------------------------------------------------
(* C4: is_path(X, P) is true exactly when X exists on disk, or X is        *)
(* absolute, or X contains a path separator, or X has a file extension and *)
(* matches P.                                                              *)

\* the last component of X has a dot that follows a character other than a dot
HasExtension(s) ==
  LET name == SubSeq(s, RFind(s, "/") + 1, Len(s))
  IN \E k \in DOMAIN name : name[k] = "." /\ \E b \in 1 .. (k - 1) : name[b] # "."

C4_PathIffAnyCondition ==
  pc = "returned" =>
    (result.value <=>
       \/ os_path_exists(fs, cwd, arg.path_string)
       \/ StartsWith(arg.path_string, "/")
       \/ "/" \in Range(arg.path_string)
       \/ HasExtension(arg.path_string) /\ fnmatch(arg.path_string, arg.file_pattern))

\* p.yml does not exist in the working directory / and is a path only by its
\* extension
C4_Witness ==
  /\ pc = "returned" /\ result.value
  /\ cwd = PathOf(Root)
  /\ arg.path_string = <<"p", ".", "y", "m", "l">> /\ arg.file_pattern = StarYml
  /\ ~os_path_exists(fs, cwd, arg.path_string)

----------------------------------------------------------------------------
(* C11: when the run has ended, every conversion named N whose invocation  *)
(* succeeded with content has a file <output directory>/N.json that holds  *)
(* a record with conversion_name N, and a conversion that failed or was    *)
(* skipped has no output file.                                             *)

JsonSuffix == <<".", "j", "s", "o", "n">>
ConversionNameKey ==
  <<"c", "o", "n", "v", "e", "r", "s", "i", "o", "n", "_", "n", "a", "m", "e">>

JsonFile(j) ==
  Resolve(<<SLASH>>,
          PathJoin(PathJoin(path_prefix, PathOf(arg.conversions_output_dir)),
                   PathOf(Get(JobAt(j).name, <<>>) \o JsonSuffix)))

\* the files of the output directory that carry the name of conversion j
FilesNamed(j) ==
  {q \in Below(OutputDirPath) :
     /\ fs[q].kind = "file"
     /\ \E suffix \in {TxtSuffix, JsonSuffix} :
          q = Resolve(<<SLASH>>,
                      PathJoin(PathJoin(path_prefix, PathOf(arg.conversions_output_dir)),
                               PathOf(Get(JobAt(j).name, <<>>) \o suffix)))}

\* no conversion of the same name was written
OnlyOneNamed(j) ==
  \A k \in (1 .. NJobs) \ {j} : JobAt(k).name = JobAt(j).name => ~WroteFile(k)

C11_JsonRecordPerJob ==
  Terminal =>
    \A j \in 1 .. NJobs :
      /\ SucceededWithOutput(j) =>
           /\ IsFile(JsonFile(j))
           /\ Contains(fs[JsonFile(j)].data, BytesOf(j, ConversionNameKey))
           /\ Contains(fs[JsonFile(j)].data, BytesOf(j, Get(JobAt(j).name, <<>>)))
      /\ ((Failed(j) \/ HappenedFor("skip", j)) /\ OnlyOneNamed(j)) => FilesNamed(j) = {}

----------------------------------------------------------------------------
(* C12: a run ends with an error only through a fatal configuration error  *)
(* (a ValueError of the checks); a run in which every conversion passes    *)
(* its planning returns normally, and every failed invocation is reported  *)
(* and does not end the run.                                               *)

\* the loop was reached and every conversion got as far as its invocation
AllPassPlanning == Happened("mkdir") /\ \A j \in 1 .. NJobs : WasInvoked(j)

C12_RaisesIffConfigError ==
  Terminal =>
    /\ pc = "raised" => raised.type = "ValueError"
    /\ AllPassPlanning => pc = "done"
    /\ \A k \in 1 .. NJobs :
         Failed(k) => HappenedFor("report_error", k) /\ ~(pc = "raised" /\ i = k)

----------------------------------------------------------------------------
(* C13: determinism.  When the same configuration is run twice on the same *)
(* files outside the output directory, with an engine that is a function   *)
(* of its arguments, the two runs leave the same files with the same       *)
(* contents in the output directory, whatever it held before each run (its *)
(* path being absent or a directory).                                      *)

\* the files below directory d of file system f, with their contents
FilesBelow(f, d) ==
  [q \in {x \in DOMAIN f : ProperAncestor(d, x) /\ f[x].kind = "file"} |-> f[q].data]
\* the files that are neither d nor below it
FilesOutside(f, d) ==
  [q \in {x \in DOMAIN f : ~Inside(d, x) /\ f[x].kind = "file"} |-> f[q].data]
AbsentOrDirectory(f, d) == d \in DOMAIN f => f[d].kind = "dir"

SecondRunEnded == first # NoFirst /\ Terminal

SameInputs ==
  /\ first.config = arg.config
  /\ FilesOutside(first.fs0, OutputDirPath) = FilesOutside(fs0, OutputDirPath)
  /\ AbsentOrDirectory(first.fs0, OutputDirPath) /\ AbsentOrDirectory(fs0, OutputDirPath)

C13_SameOutputFiles ==
  (SecondRunEnded /\ SameInputs) =>
     FilesBelow(first.fs, OutputDirPath) = FilesBelow(fs, OutputDirPath)

----------------------------------------------------------------------------
(* C14: a run over the conversions in another order ends with the same     *)
(* files and contents in the output directory as the run over the original *)
(* order.                                                                  *)

C14_OrderIrrelevant ==
  SecondRunEnded => FilesBelow(first.fs, OutputDirPath) = FilesBelow(fs, OutputDirPath)

\* what holds: the order does not matter when no two conversions have the same
\* output file, no output file is matched by an input pattern or named by a
\* pipeline reference, every directory lists its names in the same order in both
\* runs, and the run over the original order returns normally

NoSharedOutput ==
  \A j, k \in 1 .. NJobs : j # k => ExpectedFile(j) # ExpectedFile(k)

OutputFiles == {ExpectedFile(j) : j \in 1 .. NJobs}

\* the files conversion k takes as input on the file system f
InputFilesOn(f, k) ==
  {Resolve(cwd, PathOf(x)) : x \in Range(expand_input(listing_of(f, NoListing), f, cwd, path_prefix, InputPatterns(k)))}

\* the paths a pipeline reference of conversion k may name
PipelinePaths(k) ==
  UNION {{Resolve(cwd, PathOf(r)), Resolve(path_prefix, PathOf(r))} :
           r \in Range(Get(JobAt(k).pipelines, <<>>))}

NoOutputRead ==
  \A k \in 1 .. NJobs :
     /\ InputFilesOn(first.fs, k) \cap OutputFiles = {}
     /\ InputFilesOn(fs, k) \cap OutputFiles = {}
     /\ PipelinePaths(k) \cap OutputFiles = {}

\* the file lists handed to the engine for a conversion are the same in both runs
SameFileOrder ==
  \A x \in DOMAIN first.invoked, y \in DOMAIN invoked :
     first.config.conversions[first.invoked[x].job] = JobAt(invoked[y].job) =>
        first.invoked[x].args.files = invoked[y].args.files

OrderIrrelevantForSeparateOutputs ==
  (SecondRunEnded /\ first.pc = "done" /\ NoSharedOutput /\ NoOutputRead /\ SameFileOrder) =>
     /\ pc = "done"
     /\ FilesBelow(first.fs, OutputDirPath) = FilesBelow(fs, OutputDirPath)

----------------------------------------------------------------------------
(* C15: in a run that ends without a fatal configuration error (no         *)
(* ValueError), every conversion is planned once, invoked once and written *)
(* at most once, its plan before its invocation and its invocation before  *)
(* its write, everything of a conversion before anything of the next one;  *)
(* a failed invocation is followed by no other invocation of that          *)
(* conversion.                                                             *)

At(what, j) == {k \in DOMAIN trace : trace[k] = Ev(what, j)}
StepsOf(j) == {k \in DOMAIN trace : trace[k].job = j}

PlannedInvokedWrittenOnce(j) ==
  /\ Cardinality(At("plan", j)) = 1
  /\ Cardinality(At("invoke", j)) = 1
  /\ Cardinality({k \in DOMAIN invoked : invoked[k].job = j}) = 1
  /\ Cardinality(At("write", j)) <= 1
  /\ Cardinality({k \in DOMAIN written : written[k].job = j}) <= 1
  /\ \A p \in At("plan", j), v \in At("invoke", j) : p < v
  /\ \A v \in At("invoke", j), w \in At("write", j) : v < w

C15_OncePerJobInOrder ==
  (Terminal /\ raised.type # "ValueError") =>
     /\ \A j \in 1 .. NJobs : PlannedInvokedWrittenOnce(j)
     /\ \A j, k \in 1 .. NJobs : j < k => \A a \in StepsOf(j), b \in StepsOf(k) : a < b

\* the same of the runs that return normally
OncePerJobInOrderWhenDone ==
  (Terminal /\ pc = "done") =>
     /\ \A j \in 1 .. NJobs : PlannedInvokedWrittenOnce(j)
     /\ \A j, k \in 1 .. NJobs : j < k => \A a \in StepsOf(j), b \in StepsOf(k) : a < b

----------------------------------------------------------------------------
(* C16: two conversions write the same output file only if they have the   *)
(* same name: the file written by a conversion is never created or         *)
(* replaced by a conversion of another name.                               *)

C16_DistinctNamesDistinctFiles ==
  \A x, y \in DOMAIN written :
     written[x].path = written[y].path => JobAt(written[x].job).name = JobAt(written[y].job).name

----------------------------------------------------------------------------
(* C17: the name is checked for presence, not for uniqueness: when two     *)
(* conversions of the same name both succeed with output, neither raises   *)
(* an error, both are handled as a write, and once the later of them is    *)
(* handled the one file of that name holds the later one's output (until a *)
(* further conversion writes it).                                          *)

SameName(j, k) == ~NameMissing(j) /\ JobAt(j).name = JobAt(k).name
\* no conversion after k has been handled
LastHandled(k) == \A m \in (k + 1) .. NJobs : ~WasHandled(m)
\* the output file of conversion k holds its output in its encoding
HoldsOutputOf(k) ==
  /\ IsFile(ExpectedFile(k))
  /\ Encodable(k, Content(ResultOf(k).stdout))
  /\ fs[ExpectedFile(k)].data = BytesOf(k, Content(ResultOf(k).stdout))

C17_LaterOfSameNameWins ==
  \A j, k \in 1 .. NJobs :
     (j < k /\ SameName(j, k) /\ SucceededWithOutput(j) /\ SucceededWithOutput(k)
        /\ WasHandled(k)) =>
       /\ HappenedFor("write", j) /\ HappenedFor("write", k)
       /\ pc = "raised" => i > k
       /\ ExpectedFile(j) = ExpectedFile(k)
       /\ LastHandled(k) => HoldsOutputOf(k)

\* the same of two conversions whose encodings have bytes for their outputs
LaterOfSameNameWinsWhenEncodable ==
  \A j, k \in 1 .. NJobs :
     (j < k /\ SameName(j, k) /\ SucceededWithOutput(j) /\ SucceededWithOutput(k)
        /\ WasHandled(k)
        /\ Encodable(j, Content(ResultOf(j).stdout))
        /\ Encodable(k, Content(ResultOf(k).stdout))) =>
       /\ HappenedFor("write", j) /\ HappenedFor("write", k)
       /\ pc = "raised" => i > k
       /\ ExpectedFile(j) = ExpectedFile(k)
       /\ LastHandled(k) => HoldsOutputOf(k)

\* the later of two conversions named "a" could not encode its output: the run
\* ended there and the file, which held the output of the first, is empty
LaterOfSameNameEmptiedFile ==
  /\ pc = "raised" /\ raised.type = "UnicodeEncodeError" /\ i = 2 /\ NJobs = 2
  /\ SameName(1, 2) /\ HappenedFor("write", 1) /\ SucceededWithOutput(2)
  /\ IsFile(ExpectedFile(1)) /\ fs[ExpectedFile(1)].data = <<>>

----------------------------------------------------------------------------
(* C18: the pipelines handed to the engine are as many as the references   *)
(* configured for the conversion and in the same order; a reference that   *)
(* is_path classifies as a name is handed over unchanged, one it           *)
(* classifies as a path is handed over as the project root joined with it, *)
(* which is an absolute path.                                              *)

ConfiguredPipelines(j) == Get(JobAt(j).pipelines, <<>>)
ClassifiedPath(j, k) == is_path(fs, cwd, ConfiguredPipelines(j)[k], FilePatternOf(j))
RootJoined(ref) == StrOfPath(path_prefix \o PathOf(ref))

\* the conversion i has just been planned: the file system is the one is_path saw
C18_PipelinesInOrder ==
  (pc = "invoke") =>
     /\ Len(plan.args.pipelines) = Len(ConfiguredPipelines(i))
     /\ \A k \in DOMAIN ConfiguredPipelines(i) :
          IF ClassifiedPath(i, k)
            THEN /\ plan.args.pipelines[k] = RootJoined(ConfiguredPipelines(i)[k])
                 /\ StartsWith(plan.args.pipelines[k], "/")
            ELSE plan.args.pipelines[k] = ConfiguredPipelines(i)[k]

\* a conversion with a path and then a name is about to be invoked
C18_Witness ==
  /\ pc = "invoke"
  /\ Len(ConfiguredPipelines(i)) = 2
  /\ ClassifiedPath(i, 1) /\ ~ClassifiedPath(i, 2)
  /\ plan.args.pipelines[1] # ConfiguredPipelines(i)[1]
  /\ plan.args.pipelines[2] = ConfiguredPipelines(i)[2]

----------------------------------------------------------------------------
(* C19: a relative pipeline reference that names a file under the project  *)
(* root is handed to the engine as the root joined with it, an absolute    *)
(* path, whatever the file pattern of the conversion and the working       *)
(* directory of the process.                                               *)

\* ref names a file when looked up from the project root
FileUnderRoot(ref) ==
  /\ ~StartsWith(ref, "/")
  /\ PathExists(fs, path_prefix, PathOf(ref))
  /\ ~PathIsDir(fs, path_prefix, PathOf(ref))
  /\ Inside(path_prefix, Resolve(path_prefix, PathOf(ref)))

C19_FileUnderRootIsPath ==
  (pc = "invoke") =>
     \A k \in DOMAIN ConfiguredPipelines(i) :
        FileUnderRoot(ConfiguredPipelines(i)[k]) =>
          /\ ClassifiedPath(i, k)
          /\ plan.args.pipelines[k] = RootJoined(ConfiguredPipelines(i)[k])
          /\ StartsWith(plan.args.pipelines[k], "/")

\* the same of a process whose working directory is the project root
FileUnderRootIsPathFromRoot ==
  (pc = "invoke" /\ cwd = path_prefix) =>
     \A k \in DOMAIN ConfiguredPipelines(i) :
        FileUnderRoot(ConfiguredPipelines(i)[k]) =>
          plan.args.pipelines[k] = RootJoined(ConfiguredPipelines(i)[k])

----------------------------------------------------------------------------
(* C20: each of target, format, skip-unsupported, file pattern and         *)
(* encoding handed to the engine (and the file pattern and the encoding    *)
(* used by the run itself) is the conversion's own value when it sets the  *)
(* field, and otherwise the value of that field in config["defaults"] when *)
(* that is set, whatever the other fields are.                             *)

\* actual is the conversion's value own, or else the configured default dflt
FallsBack(own, dflt, actual) ==
  /\ own # None => actual = Get(own, actual)
  /\ (own = None /\ dflt # None) => actual = Get(dflt, actual)

C20_PerFieldDefaulting ==
  (pc = "invoke") =>
     LET c == JobAt(i)
         d == arg.config.defaults
     IN /\ FallsBack(c.target, d.target, plan.args.target)
        /\ FallsBack(c.format, d.format, plan.args.format)
        /\ FallsBack(c.skip_unsupported, d.skip_unsupported, plan.args.skip_unsupported)
        /\ FallsBack(c.file_pattern, d.file_pattern, plan.args.file_pattern)
        /\ FallsBack(c.file_pattern, d.file_pattern, plan.file_pattern)
        /\ FallsBack(c.encoding, d.encoding, plan.args.encoding)
        /\ FallsBack(c.encoding, d.encoding, plan.encoding)

\* the same of the four fields that have a default in the code, and the encoding
\* of a conversion that sets none is utf-8
DefaultingOfReadFields ==
  (pc = "invoke") =>
     LET c == JobAt(i)
         d == arg.config.defaults
     IN /\ FallsBack(c.target, d.target, plan.args.target)
        /\ FallsBack(c.format, d.format, plan.args.format)
        /\ FallsBack(c.skip_unsupported, d.skip_unsupported, plan.args.skip_unsupported)
        /\ FallsBack(c.file_pattern, d.file_pattern, plan.args.file_pattern)
        /\ FallsBack(c.file_pattern, d.file_pattern, plan.file_pattern)
        /\ FallsBack(c.encoding, Some(Utf8), plan.args.encoding)
        /\ FallsBack(c.encoding, Some(Utf8), plan.encoding)

----------------------------------------------------------------------------
(* C21: the output file of a conversion holds, from the moment the         *)
(* conversion is handled, the lines of the engine's output that do not     *)
(* contain the banner, in their order, joined by newlines and stripped of  *)
(* leading and trailing whitespace, in the conversion's encoding: it holds *)
(* no banner, and every kept line that is not blank is in it.              *)

\* the lines of the output of conversion j without the banner
KeptLines(j) == SelectSeq(splitlines(ResultOf(j).stdout), LAMBDA l : ~Contains(l, Banner))
\* text without the whitespace at its ends
IsSpace(c) == c \in Whitespace
Trimmed(text) ==
  LET solid == {k \in DOMAIN text : ~IsSpace(text[k])}
  IN IF solid = {} THEN <<>>
     ELSE SubSeq(text, CHOOSE k \in solid : \A m \in solid : k <= m,
                       CHOOSE k \in solid : \A m \in solid : m <= k)
\* conversion i has just opened its output file: the write or its failure to
\* encode is the last thing that happened
JustOpened ==
  /\ trace # <<>> /\ i >= 1
  /\ trace[Len(trace)] \in {Ev("write", i), Ev("encoding_failed", i)}
JustWrote == trace # <<>> /\ i >= 1 /\ trace[Len(trace)] = Ev("write", i)

\* the file of conversion i holds its kept lines
HoldsKeptLines ==
  LET text == Trimmed(JoinWith(KeptLines(i), <<"\n">>))
  IN /\ IsFile(ExpectedFile(i))
     /\ Encodable(i, text)
     /\ fs[ExpectedFile(i)].data = BytesOf(i, text)
     /\ ~Contains(fs[ExpectedFile(i)].data, BytesOf(i, Banner))
     /\ \A l \in Range(KeptLines(i)) :
          Trimmed(l) # <<>> => Contains(fs[ExpectedFile(i)].data, BytesOf(i, Trimmed(l)))

C21_WrittenIsOutputWithoutBanner == JustOpened => HoldsKeptLines

\* the same of the writes that went through
CompletedWriteHoldsKeptLines ==
  JustWrote => /\ HoldsKeptLines
               /\ written[Len(written)].job = i
               /\ written[Len(written)].text = Trimmed(JoinWith(KeptLines(i), <<"\n">>))
               /\ written[Len(written)].data = fs[ExpectedFile(i)].data

\* an output of three lines, the banner in the second, has just been written in
\* latin-1: one byte for the e with acute accent
WroteLatin1 ==
  /\ JustWrote
  /\ ResultOf(i).stdout = OutTwo
  /\ JobAt(i).encoding = Some(<<"latin-1">>)
  /\ fs[ExpectedFile(i)].data = <<233, 10, 114>>

\* the same in utf-8: two bytes for it
WroteUtf8 ==
  /\ JustWrote
  /\ ResultOf(i).stdout = OutTwo
  /\ JobAt(i).encoding = None
  /\ fs[ExpectedFile(i)].data = <<195, 169, 10, 114>>

\* the output file was created and left empty: ascii has no byte for it
LeftEmptyByAscii ==
  /\ pc = "raised" /\ raised.type = "UnicodeEncodeError"
  /\ JobAt(i).encoding = Some(<<"ascii">>)
  /\ IsFile(ExpectedFile(i)) /\ fs[ExpectedFile(i)].data = <<>>

\* the output file was created and left empty: no codec of that name
LeftEmptyByUnknownEncoding ==
  /\ pc = "raised" /\ raised.type = "LookupError"
  /\ IsFile(ExpectedFile(i)) /\ fs[ExpectedFile(i)].data = <<>>

----------------------------------------------------------------------------
(* C22: the planning of a conversion whose "input" is absent or is neither *)
(* a string nor a list raises ValueError("Invalid input file type") and    *)
(* the engine is not invoked for it; the planning of a conversion whose    *)
(* "input" is a string gives what it gives for the list of that one string.*)

\* the planning of conversion i is the last thing that happened
JustPlanned == trace # <<>> /\ i >= 1 /\ trace[Len(trace)] = Ev("plan", i)
AsList(conversion) == [conversion EXCEPT !.input.kind = "list"]

C22_InvalidInputIsFatal ==
  JustPlanned =>
     /\ ~InputUsable(i) => /\ pc = "raised"
                           /\ raised = ValueError(MsgInputType, <<>>)
                           /\ ~WasInvoked(i)
     /\ JobAt(i).input.kind = "str" =>
          plan = plan_conversion(listing_of(fs, scan), fs, cwd, path_prefix,
                                 conversions_output_dir, defaults, AsList(JobAt(i)))

\* the same of the conversions that have a name and no "input" at all
AbsentInputIsFatal ==
  JustPlanned =>
     /\ (JobAt(i).input.kind = "absent" /\ ~NameMissing(i)) =>
          /\ pc = "raised"
          /\ raised = ValueError(MsgInputType, <<>>)
          /\ ~WasInvoked(i)
     /\ ~InputUsable(i) => pc = "raised" /\ ~WasInvoked(i)
     /\ JobAt(i).input.kind = "str" =>
          plan = plan_conversion(listing_of(fs, scan), fs, cwd, path_prefix,
                                 conversions_output_dir, defaults, AsList(JobAt(i)))

----------------------------------------------------------------------------
(* C23: every file a run creates or replaces lies in the output directory  *)
(* (which is_safe_path has accepted, so in the project root), whatever the *)
(* name of the conversion.                                                 *)

\* the files that are new or have other content than when the run started
Touched ==
  {q \in DOMAIN fs : fs[q].kind = "file" /\ (q \notin DOMAIN fs0 \/ fs0[q] # fs[q])}

C23_WritesStayInOutputDir ==
  Happened("mkdir") =>
     /\ \A k \in DOMAIN written : /\ ProperAncestor(OutputDirPath, written[k].path)
                                  /\ ProperAncestor(path_prefix, written[k].path)
     /\ \A q \in Touched : ProperAncestor(OutputDirPath, q)

\* every write of a conversion whose name has no separator stays in the output
\* directory
PlainNamesStayInOutputDir ==
  \A k \in DOMAIN written :
     "/" \notin Range(Get(JobAt(written[k].job).name, <<>>)) =>
        ProperAncestor(OutputDirPath, written[k].path)

----------------------------------------------------------------------------
(* C24: when the first conversion is about to be planned, every file that  *)
(* the input patterns of a conversion matched when the run started is      *)
(* still there with its content, whatever output directory is_safe_path    *)
(* has accepted.                                                           *)

AboutToPlanFirst == pc = "plan" /\ i = 1

C24_ResetKeepsInputFiles ==
  AboutToPlanFirst =>
     \A j \in 1 .. NJobs : \A f \in InputFilesOn(fs0, j) : f \in DOMAIN fs /\ fs[f] = fs0[f]

\* the same of the output directories that are not the project root and hold no
\* input file
ResetKeepsInputFilesOutside ==
  AboutToPlanFirst =>
     \A j \in 1 .. NJobs : \A f \in InputFilesOn(fs0, j) :
        ~Inside(OutputDirPath, f) => f \in DOMAIN fs /\ fs[f] = fs0[f]

----------------------------------------------------------------------------
(* C25: every file handed to the engine lies in the project root, also     *)
(* when an input pattern has ".." components.                              *)

C25_InputFilesInsideRoot ==
  (pc = "invoke") =>
     \A k \in DOMAIN plan.args.files :
        ProperAncestor(path_prefix, Resolve(cwd, PathOf(plan.args.files[k])))

\* what is handed over for patterns with no ".." component is the project
\* root (the pattern "**" gives the root itself) or lies in it
InputFilesInsideRootWithoutDotDot ==
  (pc = "invoke" /\ \A k \in DOMAIN InputPatterns(i) : DOTDOT \notin Range(PathOf(InputPatterns(i)[k]))) =>
     \A k \in DOMAIN plan.args.files :
        Inside(path_prefix, Resolve(cwd, PathOf(plan.args.files[k])))

----------------------------------------------------------------------------
(* C26: when the planning of conversion i raises a ValueError, the files   *)
(* written by the conversions before it are on disk with the content       *)
(* written, the output directory holds nothing of a previous run, and no   *)
(* conversion from i on has been invoked or has written.                   *)

PlanningFailed == pc = "raised" /\ raised.type = "ValueError" /\ PlanIsCurrent
\* the last write to the path q
LastWriteTo(q) ==
  written[CHOOSE k \in DOMAIN written :
            written[k].path = q /\ \A m \in DOMAIN written : written[m].path = q => m <= k]

EarlierWritesKept ==
  \A k \in DOMAIN written :
     /\ written[k].job < i
     /\ IsFile(written[k].path)
     /\ fs[written[k].path].data = LastWriteTo(written[k].path).data
NothingFromFailedOn ==
  \A j \in i .. NJobs : ~WasInvoked(j) /\ ~WroteFile(j) /\ ~WasHandled(j)
PreviousRunGone ==
  \A q \in Below(OutputDirPath) :
     fs[q].kind = "file" => \E k \in DOMAIN written : written[k].path = q

C26_NoRollback ==
  PlanningFailed => EarlierWritesKept /\ NothingFromFailedOn /\ PreviousRunGone

\* the same without the part about the previous run
NoRollbackOfWrites ==
  PlanningFailed => EarlierWritesKept /\ NothingFromFailedOn

----------------------------------------------------------------------------
(* C27: a conversion whose invocation ends with an exception writes        *)
(* nothing, whatever the engine printed before failing: its handling       *)
(* leaves the file system as it is and records no write, and no write is   *)
(* ever recorded for a failed conversion.                                  *)

HandlingFailure == pc = "handle" /\ result.exception

FailureHandledWithoutWrite ==
  HandlingFailure =>
     /\ fs' = fs
     /\ written' = written
     /\ trace' = Append(trace, Ev("report_error", i))
     /\ pc' = "loop"

C27_FailedJobWritesNothing ==
  /\ [](\A j \in 1 .. NJobs : Failed(j) => ~WroteFile(j) /\ ~HappenedFor("write", j))
  /\ [][FailureHandledWithoutWrite]_vars

\* the second of two conversions named "a" failed after printing something, and
\* the file still holds what the first wrote
C27_Witness ==
  /\ NJobs = 2 /\ SameName(1, 2)
  /\ SucceededWithOutput(1) /\ Failed(2) /\ ResultOf(2).stdout # <<>>
  /\ HappenedFor("report_error", 2)
  /\ IsFile(ExpectedFile(2))
  /\ fs[ExpectedFile(2)].data = BytesOf(1, Content(ResultOf(1).stdout))

====
